---------------------------- MODULE Spec2Model ----------------------------
(***************************************************************************)
(* A model of the Go binding of libhidapi (package hidapi, src/hidapi.go). *)
(*                                                                         *)
(* The Go wrapper is the program; the native library (hid_init, hid_open,  *)
(* hid_write, ...), the C allocator and the wide-character conversion      *)
(* library are its environment.  Every exported Go function is one action: *)
(* the action draws the arguments and the native library's responses from  *)
(* small sets, evaluates the operator translated from the Go function and  *)
(* records                                                                 *)
(*    op     the Go call (name, receiver, arguments),                      *)
(*    nat    the responses the native library gave during the call,        *)
(*    calls  the C calls the Go function made, in order, with arguments,   *)
(*    ret    what the Go function returned.                                *)
(* devices is the only state the package keeps: the Device objects that    *)
(* Open and OpenPath have returned, each holding a native handle.  Two     *)
(* Device objects that hold the same handle behave alike, so devices is    *)
(* the set of their values.  lib is the state of the native library as far *)
(* as its documentation describes it: which handles are in non-blocking    *)
(* mode and which have been closed; it follows from the C calls made, under *)
(* the specification that keeps track of it (SpecLib).                     *)
(* test is the run of the test program (src/test/main.go): the place       *)
(* libTest has reached, its local variables, the library calls it has     *)
(* made so far, the attached devices as hid_enumerate listed them and      *)
(* which of them each hid_open call addressed.                             *)
(***************************************************************************)
EXTENDS Integers, Sequences, FiniteSets, TLC

VARIABLES devices, op, nat, calls, ret, memo, lib, test

vars == <<devices, op, nat, calls, ret, memo, lib, test>>

-----------------------------------------------------------------------------
(* Bounds of the model.                                                    *)

\* Device objects alive at a time (Open and OpenPath return a further one
\* only while fewer exist).
MaxDevices == 1

\* Longest data slice given to Write / SendFeatureReport.
MaxData == 2
\* Largest length argument of Read / ReadTimeout / GetFeatureReport.
MaxLength == 1
\* Longest linked list hid_enumerate returns.
MaxNodes == 2

-----------------------------------------------------------------------------
(* Values.                                                                 *)

\* A C pointer to a buffer is modelled by the buffer it points to:
\* Null is the NULL pointer, Ptr(b) a non-NULL pointer to contents b.
Null == <<>>
Ptr(b) == <<b>>
IsNull(p) == p = <<>>
Deref(p) == p[1]

\* One C call: the function, the device handle it was given (0 when it takes
\* none), two integer arguments, a pointer argument (with the pointed-to
\* contents at the time of the call), the integer or handle it returned and
\* the pointer it returned / the contents it left in the buffer.
Call(fn, dev, x, y, ptr, r, rptr) ==
    [fn |-> fn, dev |-> dev, x |-> x, y |-> y, ptr |-> ptr, ret |-> r, rptr |-> rptr]

\* The calls of function fn in a call log, in order.
CallsOf(log, fn) == SelectSeq(log, LAMBDA c : c.fn = fn)

\* Go error values.  type "nil" is the nil error, "Error" is *hidapi.Error,
\* "errorString" is what errors.New and fmt.Errorf return (text is the
\* format, n and of its two %d operands).
NilError ==
    [type |-> "nil", FunctionName |-> "", ErrorString |-> <<>>, ReturnCode |-> 0,
     text |-> "", n |-> 0, of |-> 0]
ErrorsNew(text) == [NilError EXCEPT !.type = "errorString", !.text = text]
FmtErrorf(text, n, of) ==
    [NilError EXCEPT !.type = "errorString", !.text = text, !.n = n, !.of = of]

\* No value is returned: an access through the (*[1 << 30]byte) view of a C
\* pointer hit memory that is not mapped, and the Go runtime ended the call
\* with the message text.
Fault(text) == [NilError EXCEPT !.type = "fault", !.text = text]

\* What a Go function returned: the error, the *Device (Null for nil), the
\* []byte (Null for a nil slice), the string, and the []*DeviceInfo (Null
\* for a nil slice).
NoRet == [err |-> NilError, dev |-> Null, data |-> Null, str |-> <<>>, list |-> Null]

\* The native library's responses during one Go call: return code, returned
\* handle, the pointer hid_error returns, the bytes / wide characters it
\* writes to the caller's buffer, the enumeration list (head address, node
\* memory by address, and the addresses in list order) and the byte found in
\* memory the wrapper did not write; parts holds the responses to the calls
\* of a Go function that makes several Go calls, one per call; fault tells
\* whether an access outside every allocated buffer hits unmapped memory.
NoNat ==
    [rc |-> 0, h |-> 0, err |-> Null, out |-> <<>>, head |-> 0, mem |-> <<>>,
     order |-> <<>>, junk |-> 0, parts |-> <<>>, fault |-> FALSE]

\* A Go call: name, receiver (Null for a package function), integer
\* arguments, boolean argument, string or slice argument.
GoCall(name, d, x, y, b, s) ==
    [name |-> name, d |-> d, x |-> x, y |-> y, b |-> b, s |-> s]

-----------------------------------------------------------------------------
(* Wide-character conversion (github.com/vitaminwater/cgo.wchar, iconv     *)
(* between UTF-8 and wchar_t).  Go strings are byte sequences, wide        *)
(* strings are sequences of code points ending with 0.                     *)

IsCont(b) == b >= 128 /\ b <= 191
IsScalar(w) == w >= 0 /\ w <= 1114111 /\ ~(w >= 55296 /\ w <= 57343)

\* UTF-8 to code points; ok is FALSE on an invalid sequence (iconv EILSEQ).
RECURSIVE Utf8Decode(_)
Utf8Decode(s) ==
    IF s = <<>> THEN [ok |-> TRUE, ws |-> <<>>]
    ELSE LET b == Head(s)
             n == IF b < 128 THEN 1
                  ELSE IF b >= 194 /\ b <= 223 THEN 2
                  ELSE IF b >= 224 /\ b <= 239 THEN 3
                  ELSE IF b >= 240 /\ b <= 244 THEN 4
                  ELSE 0
         IN IF n = 0 \/ Len(s) < n \/ \E i \in 2..n : ~IsCont(s[i])
            THEN [ok |-> FALSE, ws |-> <<>>]
            ELSE LET w == CASE n = 1 -> b
                            [] n = 2 -> (b - 192) * 64 + (s[2] - 128)
                            [] n = 3 -> (b - 224) * 4096 + (s[2] - 128) * 64 + (s[3] - 128)
                            [] n = 4 -> (b - 240) * 262144 + (s[2] - 128) * 4096
                                         + (s[3] - 128) * 64 + (s[4] - 128)
                     min == CASE n = 1 -> 0 [] n = 2 -> 128 [] n = 3 -> 2048 [] n = 4 -> 65536
                     rest == Utf8Decode(SubSeq(s, n + 1, Len(s)))
                 IN IF w < min \/ ~IsScalar(w) \/ ~rest.ok
                    THEN [ok |-> FALSE, ws |-> <<>>]
                    ELSE [ok |-> TRUE, ws |-> <<w>> \o rest.ws]

\* One code point to UTF-8.
Utf8Bytes(w) ==
    IF w < 128 THEN <<w>>
    ELSE IF w < 2048 THEN <<192 + (w \div 64), 128 + (w % 64)>>
    ELSE IF w < 65536 THEN <<224 + (w \div 4096), 128 + ((w \div 64) % 64), 128 + (w % 64)>>
    ELSE <<240 + (w \div 262144), 128 + ((w \div 4096) % 64),
           128 + ((w \div 64) % 64), 128 + (w % 64)>>

\* Code points to UTF-8; ok is FALSE when one is no Unicode scalar value.
RECURSIVE Utf8Encode(_)
Utf8Encode(ws) ==
    IF ws = <<>> THEN [ok |-> TRUE, s |-> <<>>]
    ELSE LET rest == Utf8Encode(Tail(ws))
         IN IF ~IsScalar(Head(ws)) \/ ~rest.ok
            THEN [ok |-> FALSE, s |-> <<>>]
            ELSE [ok |-> TRUE, s |-> Utf8Bytes(Head(ws)) \o rest.s]

\* The wide characters before the first 0 (all of them when there is none).
RECURSIVE UntilNul(_)
UntilNul(ws) ==
    IF ws = <<>> \/ Head(ws) = 0 THEN <<>> ELSE <<Head(ws)>> \o UntilNul(Tail(ws))

\* wchar.FromGoString: the NUL-terminated wide string of a Go string.
wcharFromGoString(input) ==
    IF input = <<>> THEN [ws |-> <<>>, err |-> NilError]
    ELSE LET c == Utf8Decode(input)
         IN IF c.ok THEN [ws |-> c.ws \o <<0>>, err |-> NilError]
            ELSE [ws |-> <<>>, err |-> ErrorsNew("EILSEQ")]

\* WcharString.GoString: the Go string of a wide string, up to its first 0.
wcharGoString(ws) ==
    LET c == Utf8Encode(UntilNul(ws))
    IN IF c.ok THEN [str |-> c.s, err |-> NilError]
       ELSE [str |-> <<>>, err |-> ErrorsNew("EILSEQ")]

\* wchar.FromWcharStringPtr: the wide string at a pointer, empty for NULL.
wcharFromWcharStringPtr(p) == IF IsNull(p) THEN <<>> ELSE UntilNul(Deref(p)) \o <<0>>

\* wchar.NewWcharString(n): n zero wide characters.
wcharNewWcharString(n) == [i \in 1..n |-> 0]

\* C.CString: the bytes of a Go string followed by 0.
CString(s) == s \o <<0>>

\* C.GoString: the bytes of a C string before its first 0; "" for NULL.
CGoString(p) == IF IsNull(p) THEN <<>> ELSE UntilNul(Deref(p))

-----------------------------------------------------------------------------
(* Errors.                                                                 *)

wsLength == 128

\* strconv-style decimal digits of n >= 0, as fmt's %d prints them.
RECURSIVE Digits(_)
Digits(n) == IF n < 10 THEN <<48 + n>> ELSE Digits(n \div 10) \o <<48 + (n % 10)>>

\* fmt's %d of an int: a minus sign before the digits of a negative number.
FmtInt(n) == IF n < 0 THEN <<45>> \o Digits(0 - n) ELSE Digits(n)

\* Faulty variant of Error.Error: the colon and the ErrorString are printed
\* always.
ErrorAlwaysColon(e) ==
    [name |-> e.FunctionName,
     rest |-> <<40, 41, 32, 114, 101, 116, 117, 114, 110, 101, 100, 32>>
              \o FmtInt(e.ReturnCode) \o <<58, 32>> \o e.ErrorString]

\* Error.Error: "%s() returned %d: %s" when there is an ErrorString, else
\* "%s() returned %d".  The text is the function name followed by the bytes
\* rest.
Error(e) ==
    IF e.ErrorString # <<>>
    THEN [name |-> e.FunctionName,
          rest |-> <<40, 41, 32, 114, 101, 116, 117, 114, 110, 101, 100, 32>>
                   \o FmtInt(e.ReturnCode) \o <<58, 32>> \o e.ErrorString]
    ELSE [name |-> e.FunctionName,
          rest |-> <<40, 41, 32, 114, 101, 116, 117, 114, 110, 101, 100, 32>>
                   \o FmtInt(e.ReturnCode)]

\* apiError: the *Error of a failed library call.
apiError(name, rc) ==
    [NilError EXCEPT !.type = "Error", !.FunctionName = name, !.ReturnCode = rc]

\* Device.ErrorString: one hid_error call, its result converted.
ErrorString(d, err) ==
    LET ws == wcharFromWcharStringPtr(err)
        g == wcharGoString(ws)
    IN [calls |-> <<Call("hid_error", d.dev, 0, 0, Null, 0, err)>>,
        self |-> d,
        ret |-> [NoRet EXCEPT !.str = g.str, !.err = g.err]]

\* Faulty variant of devError: a text that cannot be converted is left
\* empty instead of "?".
devErrorLeavesEmpty(d, name, rc, err) ==
    LET e == ErrorString(d, err)
    IN [calls |-> e.calls,
        err |-> [NilError EXCEPT !.type = "Error", !.FunctionName = name,
                                 !.ErrorString = e.ret.str, !.ReturnCode = rc]]

\* Device.devError: the *Error of a failed device call.
devError(d, name, rc, err) ==
    LET e == ErrorString(d, err)
        s == IF e.ret.err # NilError THEN <<63>> ELSE e.ret.str
    IN [calls |-> e.calls,
        err |-> [NilError EXCEPT !.type = "Error", !.FunctionName = name,
                                 !.ErrorString = s, !.ReturnCode = rc]]

-----------------------------------------------------------------------------
(* Utility functions.                                                      *)

\* allocBuffer: a C buffer of n bytes; malloc leaves junk in each.
allocBuffer(n, junk) == [i \in 1..n |-> junk]

\* Faulty variant of go2cCopy: the copy starts one byte into the buffer,
\* leaving room for a report ID.
go2cCopyShifted(dst, src) ==
    [i \in 1..Len(dst) |-> IF i >= 2 /\ i - 1 <= Len(src) THEN src[i - 1] ELSE 0]

\* go2cCopy: copy(x[:], src) copies the Len(src) bytes of src to the start
\* of the C buffer and leaves the rest of the buffer as it was.
go2cCopy(dst, src) ==
    [i \in 1..Len(dst) |-> IF i <= Len(src) THEN src[i] ELSE dst[i]]

\* (*C.uint8_t).set: x[i] = val (i counts from 0).  The view x is 2^30 bytes
\* long whatever was allocated: a write past the end of the buffer lands in
\* memory that is not the buffer's.
set(buf, i, val) == IF i < Len(buf) THEN [buf EXCEPT ![i + 1] = val] ELSE buf

\* Faulty variant of c2goSlice: the whole C buffer is copied, whatever n is.
c2goSliceWhole(buf, n, junk) == buf

\* Faulty variant of c2goSlice: no more than the bytes of the C buffer are
\* copied.
c2goSliceClamped(buf, n, junk) ==
    [i \in 1..(IF n <= Len(buf) THEN n ELSE Len(buf)) |-> buf[i]]

\* c2goSlice / c2goCopy: a new Go slice of n bytes copied from the C buffer;
\* the bytes past the end of the buffer are whatever memory holds there.
c2goSlice(buf, n, junk) == [i \in 1..n |-> IF i <= Len(buf) THEN buf[i] ELSE junk]

\* Faulty variant of boolToInt: every boolean becomes 1.
boolToIntAlwaysOne(x) == 1

\* boolToInt.
boolToInt(x) == IF x THEN 1 ELSE 0

\* The conversions C.uint16_t(v), C.int(v), C.ulong(v) of a Go integer.
\* C.int keeps every value between -2^31 and 2^31 - 1, which are all the
\* integers of this model; C.ulong keeps every value from 0 on, and the
\* lengths converted here are not negative.
CUint16(v) == v % 65536
CInt(v) == v
CUlong(v) == v

\* The native buffer after the library wrote out to its start.
Written(buf, out) ==
    IF Len(out) >= Len(buf) THEN SubSeq(out, 1, Len(buf))
    ELSE out \o SubSeq(buf, Len(out) + 1, Len(buf))

-----------------------------------------------------------------------------
(* The exported functions.  Each operator takes the Go arguments and the   *)
(* native responses and yields the C calls made and the values returned.   *)

\* Faulty variant of Init: only a negative return code is an error.
hidapiInitNegativeOnly(rc) ==
    [calls |-> <<Call("hid_init", 0, 0, 0, Null, rc, Null)>>,
     ret |-> [NoRet EXCEPT !.err = IF rc < 0 THEN apiError("hid_init", rc) ELSE NilError]]

\* Init (hidapi.Init).
hidapiInit(rc) ==
    [calls |-> <<Call("hid_init", 0, 0, 0, Null, rc, Null)>>,
     ret |-> [NoRet EXCEPT !.err = IF rc # 0 THEN apiError("hid_init", rc) ELSE NilError]]

\* Exit.
Exit(rc) ==
    [calls |-> <<Call("hid_exit", 0, 0, 0, Null, rc, Null)>>,
     ret |-> [NoRet EXCEPT !.err = IF rc # 0 THEN apiError("hid_exit", rc) ELSE NilError]]

\* Faulty variant of the DeviceInfo of a node: when one of the three strings
\* cannot be converted, all three are left empty.
DeviceInfoOfBlanksAll(node) ==
    LET sn == IF IsNull(node.serial_number) THEN [str |-> <<>>, err |-> ErrorsNew("nil")]
              ELSE wcharGoString(wcharFromWcharStringPtr(node.serial_number))
        mf == IF IsNull(node.manufacturer_string) THEN [str |-> <<>>, err |-> ErrorsNew("nil")]
              ELSE wcharGoString(wcharFromWcharStringPtr(node.manufacturer_string))
        pr == IF IsNull(node.product_string) THEN [str |-> <<>>, err |-> ErrorsNew("nil")]
              ELSE wcharGoString(wcharFromWcharStringPtr(node.product_string))
        bad == sn.err # NilError \/ mf.err # NilError \/ pr.err # NilError
    IN [Path |-> CGoString(node.path),
        VendorID |-> node.vendor_id % 65536,
        ProductID |-> node.product_id % 65536,
        SerialNumber |-> IF bad THEN <<>> ELSE sn.str,
        ReleaseNumber |-> node.release_number % 65536,
        Manufacturer |-> IF bad THEN <<>> ELSE mf.str,
        Product |-> IF bad THEN <<>> ELSE pr.str,
        UsagePage |-> node.usage_page % 65536,
        Usage |-> node.usage % 65536,
        InterfaceNumber |-> node.interface_number]

\* The DeviceInfo made from one node of the native list.
DeviceInfoOf(node) ==
    LET sn == IF IsNull(node.serial_number) THEN [str |-> <<>>, err |-> ErrorsNew("nil")]
              ELSE wcharGoString(wcharFromWcharStringPtr(node.serial_number))
        mf == IF IsNull(node.manufacturer_string) THEN [str |-> <<>>, err |-> ErrorsNew("nil")]
              ELSE wcharGoString(wcharFromWcharStringPtr(node.manufacturer_string))
        pr == IF IsNull(node.product_string) THEN [str |-> <<>>, err |-> ErrorsNew("nil")]
              ELSE wcharGoString(wcharFromWcharStringPtr(node.product_string))
    IN [Path |-> CGoString(node.path),
        VendorID |-> node.vendor_id % 65536,
        ProductID |-> node.product_id % 65536,
        SerialNumber |-> IF sn.err # NilError THEN <<>> ELSE sn.str,
        ReleaseNumber |-> node.release_number % 65536,
        Manufacturer |-> IF mf.err # NilError THEN <<>> ELSE mf.str,
        Product |-> IF pr.err # NilError THEN <<>> ELSE pr.str,
        UsagePage |-> node.usage_page % 65536,
        Usage |-> node.usage % 65536,
        InterfaceNumber |-> node.interface_number]

\* Faulty variant of the loop of Enumerate: it stops at the last node
\* (for di.next != nil) instead of after it.
RECURSIVE EnumerateLoopStopsEarly(_, _)
EnumerateLoopStopsEarly(mem, di) ==
    IF di = 0 \/ mem[di].next = 0 THEN [devs |-> <<>>, reads |-> <<>>]
    ELSE LET rest == EnumerateLoopStopsEarly(mem, mem[di].next)
         IN [devs |-> <<DeviceInfoOf(mem[di])>> \o rest.devs,
             reads |-> <<Call("read_node", 0, di, 0, Null, 0, Null)>> \o rest.reads]

\* The loop of Enumerate: for di != nil { append; di = di.next }.
RECURSIVE EnumerateLoop(_, _)
EnumerateLoop(mem, di) ==
    IF di = 0 THEN [devs |-> <<>>, reads |-> <<>>]
    ELSE LET rest == EnumerateLoop(mem, mem[di].next)
         IN [devs |-> <<DeviceInfoOf(mem[di])>> \o rest.devs,
             reads |-> <<Call("read_node", 0, di, 0, Null, 0, Null)>> \o rest.reads]

\* Faulty variant of Enumerate: the list is freed before it is walked.
EnumerateFreesFirst(vid, pid, head, mem) ==
    LET e == Call("hid_enumerate", 0, CUint16(vid), CUint16(pid), Null, head, Null)
        l == EnumerateLoop(mem, head)
    IN IF head = 0 THEN [calls |-> <<e>>, ret |-> NoRet]
       ELSE [calls |-> <<e, Call("hid_free_enumeration", 0, head, 0, Null, 0, Null)>>
                        \o l.reads,
             ret |-> [NoRet EXCEPT !.list = Ptr(l.devs)]]

\* Enumerate.
Enumerate(vid, pid, head, mem) ==
    LET e == Call("hid_enumerate", 0, CUint16(vid), CUint16(pid), Null, head, Null)
        l == EnumerateLoop(mem, head)
    IN IF head = 0 THEN [calls |-> <<e>>, ret |-> NoRet]
       ELSE [calls |-> <<e>> \o l.reads
                        \o <<Call("hid_free_enumeration", 0, head, 0, Null, 0, Null)>>,
             ret |-> [NoRet EXCEPT !.list = Ptr(l.devs)]]

\* Faulty variant of Open: the serial number is always passed, also when
\* it is empty.
OpenAlwaysSerial(vid, pid, sn, h) ==
    LET c == wcharFromGoString(sn)
    IN IF c.err # NilError
       THEN [calls |-> <<>>, err |-> ErrorsNew("can't convert serial number"), d |-> Null]
       ELSE [calls |-> <<Call("hid_open", 0, CUint16(vid), CUint16(pid),
                               Ptr(IF sn = <<>> THEN <<0>> ELSE c.ws), h, Null)>>,
             err |-> IF h = 0 THEN ErrorsNew("hid_open() returned NULL") ELSE NilError,
             d |-> IF h = 0 THEN Null ELSE Ptr([dev |-> h])]

\* Faulty variant of Open: a NULL handle is wrapped in a Device too.
OpenNoNullCheck(vid, pid, sn, h) ==
    LET c == IF sn = <<>> THEN [ws |-> <<>>, err |-> NilError] ELSE wcharFromGoString(sn)
    IN IF c.err # NilError
       THEN [calls |-> <<>>, err |-> ErrorsNew("can't convert serial number"), d |-> Null]
       ELSE [calls |-> <<Call("hid_open", 0, CUint16(vid), CUint16(pid),
                               IF sn = <<>> THEN Null ELSE Ptr(c.ws), h, Null)>>,
             err |-> NilError,
             d |-> Ptr([dev |-> h])]

\* Open: the calls made, the error and the new Device (Null for nil).
Open(vid, pid, sn, h) ==
    LET c == IF sn = <<>> THEN [ws |-> <<>>, err |-> NilError] ELSE wcharFromGoString(sn)
    IN IF c.err # NilError
       THEN [calls |-> <<>>, err |-> ErrorsNew("can't convert serial number"), d |-> Null]
       ELSE [calls |-> <<Call("hid_open", 0, CUint16(vid), CUint16(pid),
                               IF sn = <<>> THEN Null ELSE Ptr(c.ws), h, Null)>>,
             err |-> IF h = 0 THEN ErrorsNew("hid_open() returned NULL") ELSE NilError,
             d |-> IF h = 0 THEN Null ELSE Ptr([dev |-> h])]

\* Faulty variant of OpenPath: the C string is freed only on success (the
\* free is not deferred).
OpenPathLeaksOnFailure(path, h) ==
    LET cPath == CString(path)
    IN [calls |-> <<Call("CString", 0, Len(path), 0, Ptr(path), 0, Ptr(cPath)),
                    Call("hid_open_path", 0, 0, 0, Ptr(cPath), h, Null)>>
                  \o (IF h = 0 THEN <<>> ELSE <<Call("free", 0, 0, 0, Ptr(cPath), 0, Null)>>),
        err |-> IF h = 0 THEN ErrorsNew("hid_open_path() returned NULL") ELSE NilError,
        d |-> IF h = 0 THEN Null ELSE Ptr([dev |-> h])]

\* OpenPath: the calls made, the error and the new Device (Null for nil).
OpenPath(path, h) ==
    LET cPath == CString(path)
    IN [calls |-> <<Call("CString", 0, Len(path), 0, Ptr(path), 0, Ptr(cPath)),
                    Call("hid_open_path", 0, 0, 0, Ptr(cPath), h, Null),
                    Call("free", 0, 0, 0, Ptr(cPath), 0, Null)>>,
        err |-> IF h = 0 THEN ErrorsNew("hid_open_path() returned NULL") ELSE NilError,
        d |-> IF h = 0 THEN Null ELSE Ptr([dev |-> h])]

\* Faulty variant of Write: a write of more bytes than asked is a success.
WriteShortOnly(d, data, n) ==
    LET cLength == Len(data)
        cBuffer == go2cCopy(allocBuffer(cLength, n.junk), data)
        e == devError(d, "hid_write", n.rc, n.err)
    IN [calls |-> <<Call("malloc", 0, cLength, 0, Null, 0, Null),
                    Call("hid_write", d.dev, CUlong(cLength), 0, Ptr(cBuffer), n.rc, Null)>>
                  \o (IF n.rc < 0 THEN e.calls ELSE <<>>)
                  \o <<Call("free", 0, 0, 0, Ptr(cBuffer), 0, Null)>>,
        self |-> d,
        ret |-> [NoRet EXCEPT !.err =
                   IF n.rc < 0 THEN e.err
                   ELSE IF n.rc < cLength
                        THEN FmtErrorf("hid_write() only wrote %d of %d bytes", n.rc, cLength)
                        ELSE NilError]]

\* Faulty variant of Write: a failed write is tried a second time.
WriteRetries(d, data, n) ==
    LET cLength == Len(data)
        cBuffer == go2cCopy(allocBuffer(cLength, n.junk), data)
        e == devError(d, "hid_write", n.rc, n.err)
        w == Call("hid_write", d.dev, CUlong(cLength), 0, Ptr(cBuffer), n.rc, Null)
    IN [calls |-> <<Call("malloc", 0, cLength, 0, Null, 0, Null), w>>
                  \o (IF n.rc < 0 THEN <<w>> \o e.calls ELSE <<>>)
                  \o <<Call("free", 0, 0, 0, Ptr(cBuffer), 0, Null)>>,
        self |-> d,
        ret |-> [NoRet EXCEPT !.err =
                   IF n.rc < 0 THEN e.err
                   ELSE IF n.rc # cLength
                        THEN FmtErrorf("hid_write() only wrote %d of %d bytes", n.rc, cLength)
                        ELSE NilError]]

\* Device.Write.
Write(d, data, n) ==
    LET cLength == Len(data)
        cBuffer == go2cCopy(allocBuffer(cLength, n.junk), data)
        e == devError(d, "hid_write", n.rc, n.err)
    IN [calls |-> <<Call("malloc", 0, cLength, 0, Null, 0, Null),
                    Call("hid_write", d.dev, CUlong(cLength), 0, Ptr(cBuffer), n.rc, Null)>>
                  \o (IF n.rc < 0 THEN e.calls ELSE <<>>)
                  \o <<Call("free", 0, 0, 0, Ptr(cBuffer), 0, Null)>>,
        self |-> d,
        ret |-> [NoRet EXCEPT !.err =
                   IF n.rc < 0 THEN e.err
                   ELSE IF n.rc # cLength
                        THEN FmtErrorf("hid_write() only wrote %d of %d bytes", n.rc, cLength)
                        ELSE NilError]]

\* What becomes of the outcome r of a read into cLength bytes when an
\* access outside the buffer hits unmapped memory.  set(0, id) is outside a
\* buffer of no bytes: malloc(0) may return NULL, the write to address 0 is
\* a nil dereference and the deferred freeBuffer runs as the panic unwinds.
\* c2goCopy reads past the buffer when the native function claims more
\* bytes than the buffer has: a fault there is fatal and nothing is freed.
WildAccess(r, cLength, n) ==
    IF n.fault /\ cLength < 1
    THEN [r EXCEPT !.calls = <<r.calls[1], r.calls[Len(r.calls)]>>,
                   !.ret = [NoRet EXCEPT
                              !.err = Fault("invalid memory address or nil pointer dereference")]]
    ELSE IF n.fault /\ n.rc > cLength
    THEN [r EXCEPT !.calls = SubSeq(r.calls, 1, Len(r.calls) - 1),
                   !.ret = [NoRet EXCEPT !.err = Fault("unexpected fault address")]]
    ELSE r

\* Device.ReadTimeout.
ReadTimeout(d, id, length, milliseconds, n) ==
    LET cLength == length + 1
        cBuffer == set(allocBuffer(cLength, n.junk), 0, id)
        after == Written(cBuffer, n.out)
        e == devError(d, "hid_read_timeout", n.rc, n.err)
    IN WildAccess([calls |-> <<Call("malloc", 0, cLength, 0, Null, 0, Null),
                               Call("hid_read_timeout", d.dev, CUlong(cLength), CInt(milliseconds),
                                    Ptr(cBuffer), n.rc, Ptr(after))>>
                             \o (IF n.rc < 0 THEN e.calls ELSE <<>>)
                             \o <<Call("free", 0, 0, 0, Ptr(after), 0, Null)>>,
                   self |-> d,
                   ret |-> IF n.rc < 0 THEN [NoRet EXCEPT !.err = e.err]
                           ELSE IF n.rc = 0
                                THEN [NoRet EXCEPT !.err = ErrorsNew("hid_read_timeout() read 0 bytes")]
                                ELSE [NoRet EXCEPT !.data = Ptr(c2goSlice(after, n.rc, n.junk))]],
                  cLength, n)

\* Faulty variant of Read: the report ID is not put into the buffer.
ReadNoReportId(d, id, length, n) ==
    LET cLength == length + 1
        cBuffer == allocBuffer(cLength, n.junk)
        after == Written(cBuffer, n.out)
        e == devError(d, "hid_read", n.rc, n.err)
    IN WildAccess([calls |-> <<Call("malloc", 0, cLength, 0, Null, 0, Null),
                               Call("hid_read", d.dev, CUlong(cLength), 0, Ptr(cBuffer), n.rc, Ptr(after))>>
                             \o (IF n.rc < 0 THEN e.calls ELSE <<>>)
                             \o <<Call("free", 0, 0, 0, Ptr(after), 0, Null)>>,
                   self |-> d,
                   ret |-> IF n.rc < 0 THEN [NoRet EXCEPT !.err = e.err]
                           ELSE IF n.rc = 0
                                THEN [NoRet EXCEPT !.err = ErrorsNew("hid_read() read 0 bytes")]
                                ELSE [NoRet EXCEPT !.data = Ptr(c2goSlice(after, n.rc, n.junk))]],
                  cLength, n)

\* Device.Read.
Read(d, id, length, n) ==
    LET cLength == length + 1
        cBuffer == set(allocBuffer(cLength, n.junk), 0, id)
        after == Written(cBuffer, n.out)
        e == devError(d, "hid_read", n.rc, n.err)
    IN WildAccess([calls |-> <<Call("malloc", 0, cLength, 0, Null, 0, Null),
                               Call("hid_read", d.dev, CUlong(cLength), 0, Ptr(cBuffer), n.rc, Ptr(after))>>
                             \o (IF n.rc < 0 THEN e.calls ELSE <<>>)
                             \o <<Call("free", 0, 0, 0, Ptr(after), 0, Null)>>,
                   self |-> d,
                   ret |-> IF n.rc < 0 THEN [NoRet EXCEPT !.err = e.err]
                           ELSE IF n.rc = 0
                                THEN [NoRet EXCEPT !.err = ErrorsNew("hid_read() read 0 bytes")]
                                ELSE [NoRet EXCEPT !.data = Ptr(c2goSlice(after, n.rc, n.junk))]],
                  cLength, n)

\* Faulty variant of SetNonBlocking: the mode last set is remembered and
\* the native call is skipped when the mode asked for is that mode.
SetNonBlockingCached(d, nonblock, n) ==
    LET e == devError(d, "hid_set_nonblocking", n.rc, n.err)
    IN IF op.name = "SetNonBlocking" /\ op.b = nonblock /\ ret.err = NilError
       THEN [calls |-> <<>>, self |-> d, ret |-> NoRet]
       ELSE [calls |-> <<Call("hid_set_nonblocking", d.dev, CInt(boolToInt(nonblock)), 0,
                               Null, n.rc, Null)>>
                        \o (IF n.rc # 0 THEN e.calls ELSE <<>>),
             self |-> d,
             ret |-> [NoRet EXCEPT !.err = IF n.rc # 0 THEN e.err ELSE NilError]]

\* Device.SetNonBlocking.
SetNonBlocking(d, nonblock, n) ==
    LET e == devError(d, "hid_set_nonblocking", n.rc, n.err)
    IN [calls |-> <<Call("hid_set_nonblocking", d.dev, CInt(boolToInt(nonblock)), 0,
                         Null, n.rc, Null)>>
                  \o (IF n.rc # 0 THEN e.calls ELSE <<>>),
        self |-> d,
        ret |-> [NoRet EXCEPT !.err = IF n.rc # 0 THEN e.err ELSE NilError]]

\* Device.SendFeatureReport.
SendFeatureReport(d, data, n) ==
    LET cLength == Len(data)
        cBuffer == go2cCopy(allocBuffer(cLength, n.junk), data)
        e == devError(d, "hid_send_feature_report", n.rc, n.err)
    IN [calls |-> <<Call("malloc", 0, cLength, 0, Null, 0, Null),
                    Call("hid_send_feature_report", d.dev, CUlong(cLength), 0,
                         Ptr(cBuffer), n.rc, Null)>>
                  \o (IF n.rc < 0 THEN e.calls ELSE <<>>)
                  \o <<Call("free", 0, 0, 0, Ptr(cBuffer), 0, Null)>>,
        self |-> d,
        ret |-> [NoRet EXCEPT !.err =
                   IF n.rc < 0 THEN e.err
                   ELSE IF n.rc # cLength
                        THEN FmtErrorf("hid_send_feature_report() only wrote %d of %d bytes",
                                       n.rc, cLength)
                        ELSE NilError]]

\* Device.GetFeatureReport.
GetFeatureReport(d, id, length, n) ==
    LET cLength == length + 1
        cBuffer == set(allocBuffer(cLength, n.junk), 0, id)
        after == Written(cBuffer, n.out)
        e == devError(d, "hid_get_feature_report", n.rc, n.err)
    IN WildAccess([calls |-> <<Call("malloc", 0, cLength, 0, Null, 0, Null),
                               Call("hid_get_feature_report", d.dev, CUlong(cLength), 0,
                                    Ptr(cBuffer), n.rc, Ptr(after))>>
                             \o (IF n.rc < 0 THEN e.calls ELSE <<>>)
                             \o <<Call("free", 0, 0, 0, Ptr(after), 0, Null)>>,
                   self |-> d,
                   ret |-> IF n.rc < 0 THEN [NoRet EXCEPT !.err = e.err]
                           ELSE IF n.rc = 0
                                THEN [NoRet EXCEPT !.err = ErrorsNew("hid_get_feature_report() read 0 bytes")]
                                ELSE [NoRet EXCEPT !.data = Ptr(c2goSlice(after, n.rc, n.junk))]],
                  cLength, n)

\* Faulty variant of Close: the handle is cleared once closed, and a Device
\* without a handle is not closed again.
CloseClears(d) ==
    [calls |-> IF d.dev = 0 THEN <<>>
               ELSE <<Call("hid_close", d.dev, 0, 0, Null, 0, Null)>>,
     self |-> [d EXCEPT !.dev = 0],
     ret |-> NoRet]

\* Device.Close.
Close(d) ==
    [calls |-> <<Call("hid_close", d.dev, 0, 0, Null, 0, Null)>>,
     self |-> d,
     ret |-> NoRet]

\* Faulty variant of the string getters: only a negative return code is an
\* error.
getStringNegativeOnly(d, fn, idx, n) ==
    LET ws == wcharNewWcharString(wsLength)
        after == Written(ws, n.out)
        e == devError(d, fn, n.rc, n.err)
        g == wcharGoString(after)
    IN [calls |-> <<Call(fn, d.dev, wsLength, CInt(idx), Ptr(ws), n.rc, Ptr(after))>>
                  \o (IF n.rc < 0 THEN e.calls ELSE <<>>),
        self |-> d,
        ret |-> IF n.rc < 0 THEN [NoRet EXCEPT !.err = e.err]
                ELSE [NoRet EXCEPT !.str = g.str, !.err = g.err]]

\* The body shared by the four string getters: fn is the native function,
\* idx its string index (0 when it takes none).
getString(d, fn, idx, n) ==
    LET ws == wcharNewWcharString(wsLength)
        after == Written(ws, n.out)
        e == devError(d, fn, n.rc, n.err)
        g == wcharGoString(after)
    IN [calls |-> <<Call(fn, d.dev, wsLength, CInt(idx), Ptr(ws), n.rc, Ptr(after))>>
                  \o (IF n.rc # 0 THEN e.calls ELSE <<>>),
        self |-> d,
        ret |-> IF n.rc # 0 THEN [NoRet EXCEPT !.err = e.err]
                ELSE [NoRet EXCEPT !.str = g.str, !.err = g.err]]

\* Device.GetManufacturerString.
GetManufacturerString(d, n) == getString(d, "hid_get_manufacturer_string", 0, n)

\* Device.GetProductString.
GetProductString(d, n) == getString(d, "hid_get_product_string", 0, n)

\* Device.GetSerialNumberString.
GetSerialNumberString(d, n) == getString(d, "hid_get_serial_number_string", 0, n)

\* Device.GetIndexedString.
GetIndexedString(d, idx, n) == getString(d, "hid_get_indexed_string", idx, n)

\* strings.Join: the elements with sep between them.
RECURSIVE stringsJoin(_, _)
stringsJoin(elems, sep) ==
    IF elems = <<>> THEN <<>>
    ELSE IF Len(elems) = 1 THEN elems[1]
    ELSE elems[1] \o sep \o stringsJoin(Tail(elems), sep)

\* Faulty variant of Device.String: the reads stop at the first descriptor
\* that cannot be read.
StringStopsAtFailure(d, ns) ==
    LET m == GetManufacturerString(d, ns[1])
        p == GetProductString(d, ns[2])
        sn == GetSerialNumberString(d, ns[3])
        mOk == m.ret.err = NilError
        pOk == mOk /\ p.ret.err = NilError
        snOk == pOk /\ sn.ret.err = NilError
        s == (IF mOk
              THEN <<<<109, 97, 110, 117, 102, 97, 99, 116, 117, 114, 101, 114, 58, 32>>
                     \o m.ret.str>>
              ELSE <<>>)
             \o (IF pOk
                 THEN <<<<112, 114, 111, 100, 117, 99, 116, 58, 32>> \o p.ret.str>>
                 ELSE <<>>)
             \o (IF snOk
                 THEN <<<<115, 101, 114, 105, 97, 108, 32, 110, 117, 109, 98, 101, 114, 58, 32>>
                        \o sn.ret.str>>
                 ELSE <<>>)
    IN [calls |-> m.calls \o (IF mOk THEN p.calls ELSE <<>>)
                  \o (IF pOk THEN sn.calls ELSE <<>>),
        self |-> d,
        ret |-> [NoRet EXCEPT !.str = stringsJoin(s, <<10>>)]]

\* Device.String: the three descriptors are read in turn (ns holds the
\* native responses of the three reads); each one read without error gives
\* a line "manufacturer: %s", "product: %s", "serial number: %s" (in UTF-8
\* bytes), and the lines are joined with "\n".
String(d, ns) ==
    LET m == GetManufacturerString(d, ns[1])
        p == GetProductString(d, ns[2])
        sn == GetSerialNumberString(d, ns[3])
        s == (IF m.ret.err = NilError
              THEN <<<<109, 97, 110, 117, 102, 97, 99, 116, 117, 114, 101, 114, 58, 32>>
                     \o m.ret.str>>
              ELSE <<>>)
             \o (IF p.ret.err = NilError
                 THEN <<<<112, 114, 111, 100, 117, 99, 116, 58, 32>> \o p.ret.str>>
                 ELSE <<>>)
             \o (IF sn.ret.err = NilError
                 THEN <<<<115, 101, 114, 105, 97, 108, 32, 110, 117, 109, 98, 101, 114, 58, 32>>
                        \o sn.ret.str>>
                 ELSE <<>>)
    IN [calls |-> m.calls \o p.calls \o sn.calls,
        self |-> d,
        ret |-> [NoRet EXCEPT !.str = stringsJoin(s, <<10>>)]]


-----------------------------------------------------------------------------
(* The inputs: arguments of the Go calls and responses of the native       *)
(* library.                                                                *)

\* The m bytes b, b+1, ..., b+m-1.
Run(b, m) == [i \in 1..m |-> b + i - 1]

\* The inputs of the full model.  ids are (vendor id, product id) pairs, sns
\* serial numbers ("", "A", e-acute in UTF-8, an invalid UTF-8 byte), paths
\* device paths, firsts the first bytes of data slices and of the bytes the
\* library writes, rids report ids, minLength..maxLength the lengths asked
\* of the read functions, over how many bytes more than it was asked for a
\* native read may claim, faults whether an access outside every buffer may
\* hit unmapped memory, errs what hid_error returns (NULL, L"e",
\* an unconvertible wide string), strs the wide strings the string getters
\* receive, handles what the open calls return (0 is NULL).
Full ==
    [ids |-> {<<0, 0>>, <<1133, 7>>},
     sns |-> {<<>>, <<65>>, <<195, 169>>, <<255>>},
     paths |-> {<<>>, <<47, 104>>},
     firsts |-> {0, 7},
     rids |-> {0, 7},
     maxData |-> MaxData,
     minLength |-> 0,
     maxLength |-> MaxLength,
     over |-> 0,
     faults |-> {FALSE},
     ms |-> {-1, 50},
     rcs |-> {-1, 0, 1},
     errs |-> {Null, Ptr(<<101, 0>>), Ptr(<<55296, 0>>)},
     handles |-> {0, 1, 2},
     idx |-> {0, 3},
     strs |-> {<<0>>, <<72, 233, 0>>, <<55296, 0>>},
     maxNodes |-> MaxNodes,
     kinds |-> {1, 2, 3},
     layouts |-> BOOLEAN,
     junk |-> {170}]

\* The data slices given to Write and SendFeatureReport.
Datas(I) == {Run(b, m) : b \in I.firsts, m \in 0..I.maxData}

\* Node k of the native enumeration: kinds of node that differ in every
\* field; kind 2 has NULL strings, kinds 3, 4 and 5 have a serial number, a
\* manufacturer and a product that cannot be converted.  Kind 6 is another
\* device with the vendor and product id of kind 1.
Node(k, next) ==
    [path |-> IF k = 2 THEN Null ELSE Ptr(<<47, 48 + k, 0>>),
     vendor_id |-> CASE k = 3 -> 65535 [] k = 6 -> 1001 [] OTHER -> 1000 + k,
     product_id |-> IF k = 6 THEN 2001 ELSE 2000 + k,
     serial_number |-> CASE k = 2 -> Null
                         [] k = 3 -> Ptr(<<55296, 0>>)
                         [] OTHER -> Ptr(<<83, 48 + k, 0>>),
     release_number |-> 3000 + k,
     manufacturer_string |-> CASE k = 2 -> Null
                               [] k = 4 -> Ptr(<<77, 56320, 0>>)
                               [] OTHER -> Ptr(<<77, 48 + k, 0>>),
     product_string |-> CASE k = 2 -> Null
                          [] k = 5 -> Ptr(<<1114112, 0>>)
                          [] OTHER -> Ptr(<<80, 233, 0>>),
     usage_page |-> 4000 + k,
     usage |-> 5000 + k,
     interface_number |-> k - 2,
     next |-> next]

\* A native list of the nodes of kinds ks; rev lays the nodes out in memory
\* in the reverse of list order.
ListAddr(len, rev, i) == IF rev THEN len + 1 - i ELSE i
ListMem(ks, rev) ==
    LET len == Len(ks)
    IN [a \in 1..len |->
          LET i == ListAddr(len, rev, a)
          IN Node(ks[i], IF i < len THEN ListAddr(len, rev, i + 1) ELSE 0)]
ListOrder(ks, rev) == [i \in 1..Len(ks) |-> ListAddr(Len(ks), rev, i)]

\* What the native library may answer to a write of cLength bytes: an
\* error, or a count of bytes from 0 to one more than asked.
WriteAnswers(I, cLength) ==
    {[NoNat EXCEPT !.rc = -1, !.err = err, !.junk = junk] :
        err \in I.errs, junk \in I.junk}
    \cup {[NoNat EXCEPT !.rc = rc, !.junk = junk] : rc \in 0..(cLength + 1), junk \in I.junk}

\* What the native library may answer to a read of cLength bytes: an error,
\* nothing, or rc bytes written to the start of the buffer, where rc is at
\* most I.over more than the cLength bytes asked for.
ReadAnswers(I, cLength) ==
    {[NoNat EXCEPT !.rc = -1, !.err = err, !.junk = junk, !.fault = fault] :
        err \in I.errs, junk \in I.junk, fault \in I.faults}
    \cup {[NoNat EXCEPT !.rc = rc, !.out = Run(b, rc), !.junk = junk, !.fault = fault] :
            rc \in 0..(cLength + I.over), b \in I.firsts, junk \in I.junk,
            fault \in I.faults}

\* What the native library may answer to hid_set_nonblocking.
ModeAnswers(I) ==
    {[NoNat EXCEPT !.rc = rc, !.err = err] : rc \in I.rcs \ {0}, err \in I.errs}
    \cup {NoNat}

\* What the native library may answer to a string getter: an error code, or
\* 0 with a wide string written to the buffer.
StringAnswers(I) ==
    {[NoNat EXCEPT !.rc = rc, !.err = err] : rc \in I.rcs \ {0}, err \in I.errs}
    \cup {[NoNat EXCEPT !.out = out] : out \in I.strs}

-----------------------------------------------------------------------------
(* The state machine.                                                      *)

NoCall == GoCall("", Null, 0, 0, FALSE, <<>>)

\* The native library and the C allocator before any call: no handle is in
\* non-blocking mode, none has been closed (closed) or closed again while
\* closed (twice), and no C buffer allocated by the wrapper is outstanding.
NoLib == [state |-> "on", nonblocking |-> {}, closed |-> {}, twice |-> {}, heap |-> 0]

\* The native library where no track of it is kept: it may answer a call in
\* any way its interface allows.
LibOff == [NoLib EXCEPT !.state = "off"]

\* The native library after one C call: a handle comes out of hid_open and
\* hid_open_path open and in blocking mode, hid_set_nonblocking sets the
\* mode of an open handle when it returns 0, hid_close closes the handle;
\* malloc and C.CString allocate a C buffer, free releases one.
LibStep(l, c) ==
    IF c.fn \in {"hid_open", "hid_open_path"} /\ c.ret # 0
    THEN [l EXCEPT !.nonblocking = @ \ {c.ret}, !.closed = @ \ {c.ret},
                   !.twice = @ \ {c.ret}]
    ELSE IF c.fn = "hid_set_nonblocking" /\ c.ret = 0 /\ c.dev \notin l.closed
    THEN [l EXCEPT !.nonblocking = IF c.x # 0 THEN @ \cup {c.dev} ELSE @ \ {c.dev}]
    ELSE IF c.fn = "hid_close"
    THEN [l EXCEPT !.nonblocking = @ \ {c.dev}, !.closed = @ \cup {c.dev},
                   !.twice = IF c.dev \in l.closed THEN @ \cup {c.dev} ELSE @]
    ELSE IF c.fn \in {"malloc", "CString"}
    THEN [l EXCEPT !.heap = @ + 1]
    ELSE IF c.fn = "free"
    THEN [l EXCEPT !.heap = @ - 1]
    ELSE l

\* The native library after the C calls cs, in order.
RECURSIVE LibAfter(_, _)
LibAfter(l, cs) ==
    IF cs = <<>> \/ l.state = "off" THEN l ELSE LibAfter(LibStep(l, Head(cs)), Tail(cs))

\* hid_read returns 0 only when no packet is available and the handle is in
\* non-blocking mode; what it does with a closed handle is not defined.
MayReadNothing(d) ==
    lib.state = "off" \/ d.dev \in lib.nonblocking \/ d.dev \in lib.closed

\* The calls whose effect on later calls is looked for.
Between == {"Exit", "Close"}

\* The remembered call after Go call o: since collects the calls of Between
\* made after the remembered one.
Aged(m, o) ==
    IF m.state = "set" /\ o.name \in Between
    THEN [m EXCEPT !.since = @ \cup {o.name}]
    ELSE m

\* The end of a Go call: the call, the native responses, the C calls, the
\* result and the Device objects are recorded.  memo remembers at most one
\* finished call (under the specification that compares calls).
Record(o, n, c, r, devs) ==
    /\ devices' = devs
    /\ op' = o
    /\ nat' = n
    /\ calls' = c
    /\ ret' = r
    /\ lib' = LibAfter(lib, c)
    /\ memo' \in {Aged(memo, o)} \cup
         (IF memo.state = "empty"
          THEN {[state |-> "set", op |-> o, nat |-> n, calls |-> c, ret |-> r,
                 since |-> {}]}
          ELSE {})

\* The end of a Go call made by a caller other than the test program.
Return(o, n, c, r, devs) ==
    /\ Record(o, n, c, r, devs)
    /\ UNCHANGED test

\* Whether the model has room for the Device d an open call returns.
Fits(d) ==
    IF IsNull(d) THEN TRUE
    ELSE IF Deref(d) \in devices THEN TRUE
    ELSE Cardinality(devices) < MaxDevices

\* The Device objects after a call that returned the new Device d (Null for
\* nil), and after a method call that left its receiver d as self.
WithDevice(d) == IF IsNull(d) THEN devices ELSE devices \cup {Deref(d)}
WithSelf(d, self) == (devices \ {d}) \cup {self}

CallInit(I) ==
    \E rc \in I.rcs :
        LET r == hidapiInit(rc)
        IN Return(GoCall("Init", Null, 0, 0, FALSE, <<>>), [NoNat EXCEPT !.rc = rc],
                  r.calls, r.ret, devices)

CallExit(I) ==
    \E rc \in I.rcs :
        LET r == Exit(rc)
        IN Return(GoCall("Exit", Null, 0, 0, FALSE, <<>>), [NoNat EXCEPT !.rc = rc],
                  r.calls, r.ret, devices)

CallEnumerate(I) ==
    \E id \in I.ids, len \in 0..I.maxNodes, rev \in I.layouts :
      \E ks \in [1..len -> I.kinds] :
        LET mem == ListMem(ks, rev)
            order == ListOrder(ks, rev)
            head == IF len = 0 THEN 0 ELSE order[1]
            r == Enumerate(id[1], id[2], head, mem)
        IN Return(GoCall("Enumerate", Null, id[1], id[2], FALSE, <<>>),
                  [NoNat EXCEPT !.head = head, !.mem = mem, !.order = order],
                  r.calls, r.ret, devices)

CallOpen(I) ==
    \E id \in I.ids, sn \in I.sns, h \in I.handles :
        LET r == Open(id[1], id[2], sn, h)
        IN /\ Fits(r.d)
           /\ Return(GoCall("Open", Null, id[1], id[2], FALSE, sn), [NoNat EXCEPT !.h = h],
                  r.calls, [NoRet EXCEPT !.err = r.err, !.dev = r.d], WithDevice(r.d))

CallOpenPath(I) ==
    \E path \in I.paths, h \in I.handles :
        LET r == OpenPath(path, h)
        IN /\ Fits(r.d)
           /\ Return(GoCall("OpenPath", Null, 0, 0, FALSE, path), [NoNat EXCEPT !.h = h],
                  r.calls, [NoRet EXCEPT !.err = r.err, !.dev = r.d], WithDevice(r.d))

CallWrite(I) ==
    \E d \in devices, data \in Datas(I) :
      \E n \in WriteAnswers(I, Len(data)) :
          LET r == Write(d, data, n)
          IN Return(GoCall("Write", Ptr(d), 0, 0, FALSE, data), n, r.calls, r.ret,
                    WithSelf(d, r.self))

CallSendFeatureReport(I) ==
    \E d \in devices, data \in Datas(I) :
      \E n \in WriteAnswers(I, Len(data)) :
          LET r == SendFeatureReport(d, data, n)
          IN Return(GoCall("SendFeatureReport", Ptr(d), 0, 0, FALSE, data), n,
                    r.calls, r.ret, WithSelf(d, r.self))

CallReadTimeout(I) ==
    \E d \in devices, id \in I.rids, length \in I.minLength..I.maxLength, ms \in I.ms :
      \E n \in ReadAnswers(I, length + 1) :
          LET r == ReadTimeout(d, id, length, ms, n)
          IN Return(GoCall("ReadTimeout", Ptr(d), length, ms, FALSE, <<id>>), n,
                    r.calls, r.ret, WithSelf(d, r.self))

CallRead(I) ==
    \E d \in devices, id \in I.rids, length \in I.minLength..I.maxLength :
      \E n \in ReadAnswers(I, length + 1) :
          LET r == Read(d, id, length, n)
          IN /\ (n.rc = 0) => MayReadNothing(d)
             /\ Return(GoCall("Read", Ptr(d), length, 0, FALSE, <<id>>), n,
                       r.calls, r.ret, WithSelf(d, r.self))

CallGetFeatureReport(I) ==
    \E d \in devices, id \in I.rids, length \in I.minLength..I.maxLength :
      \E n \in ReadAnswers(I, length + 1) :
          LET r == GetFeatureReport(d, id, length, n)
          IN Return(GoCall("GetFeatureReport", Ptr(d), length, 0, FALSE, <<id>>), n,
                    r.calls, r.ret, WithSelf(d, r.self))

CallSetNonBlocking(I) ==
    \E d \in devices, nonblock \in BOOLEAN, n \in ModeAnswers(I) :
        LET r == SetNonBlocking(d, nonblock, n)
        IN Return(GoCall("SetNonBlocking", Ptr(d), 0, 0, nonblock, <<>>), n,
                  r.calls, r.ret, WithSelf(d, r.self))

CallClose(I) ==
    \E d \in devices :
        LET r == Close(d)
        IN Return(GoCall("Close", Ptr(d), 0, 0, FALSE, <<>>), NoNat, r.calls, r.ret,
                  WithSelf(d, r.self))

CallGetManufacturerString(I) ==
    \E d \in devices, n \in StringAnswers(I) :
        LET r == GetManufacturerString(d, n)
        IN Return(GoCall("GetManufacturerString", Ptr(d), 0, 0, FALSE, <<>>), n,
                  r.calls, r.ret, WithSelf(d, r.self))

CallGetProductString(I) ==
    \E d \in devices, n \in StringAnswers(I) :
        LET r == GetProductString(d, n)
        IN Return(GoCall("GetProductString", Ptr(d), 0, 0, FALSE, <<>>), n,
                  r.calls, r.ret, WithSelf(d, r.self))

CallGetSerialNumberString(I) ==
    \E d \in devices, n \in StringAnswers(I) :
        LET r == GetSerialNumberString(d, n)
        IN Return(GoCall("GetSerialNumberString", Ptr(d), 0, 0, FALSE, <<>>), n,
                  r.calls, r.ret, WithSelf(d, r.self))

CallGetIndexedString(I) ==
    \E d \in devices, idx \in I.idx, n \in StringAnswers(I) :
        LET r == GetIndexedString(d, idx, n)
        IN Return(GoCall("GetIndexedString", Ptr(d), idx, 0, FALSE, <<>>), n,
                  r.calls, r.ret, WithSelf(d, r.self))

CallErrorString(I) ==
    \E d \in devices, err \in I.errs :
        LET r == ErrorString(d, err)
        IN Return(GoCall("ErrorString", Ptr(d), 0, 0, FALSE, <<>>),
                  [NoNat EXCEPT !.err = err], r.calls, r.ret, WithSelf(d, r.self))

\* Error() is called on the *Error the last call returned.
CallError ==
    /\ ret.err.type = "Error"
    /\ Return(GoCall("Error", Ptr(ret.err), 0, 0, FALSE, <<>>), NoNat, <<>>,
              [NoRet EXCEPT !.str = Error(ret.err)], devices)

\* One call of an exported function, with inputs from I.
Step(I) ==
    \/ CallInit(I)
    \/ CallExit(I)
    \/ CallEnumerate(I)
    \/ CallOpen(I)
    \/ CallOpenPath(I)
    \/ CallWrite(I)
    \/ CallReadTimeout(I)
    \/ CallRead(I)
    \/ CallSetNonBlocking(I)
    \/ CallSendFeatureReport(I)
    \/ CallGetFeatureReport(I)
    \/ CallClose(I)
    \/ CallGetManufacturerString(I)
    \/ CallGetProductString(I)
    \/ CallGetSerialNumberString(I)
    \/ CallGetIndexedString(I)
    \/ CallErrorString(I)
    \/ CallError

\* The test program while it is not running.
NoTest ==
    [pc |-> "off", devs |-> <<>>, i |-> 0, dev |-> Null, log |-> <<>>,
     shown |-> <<>>, result |-> NilError, nodes |-> <<>>, addressed |-> <<>>]

\* No Device exists and no call has been made.
Start(m, t, l) ==
    /\ devices = {}
    /\ op = NoCall
    /\ nat = NoNat
    /\ calls = <<>>
    /\ ret = NoRet
    /\ lib = l
    /\ memo = [state |-> m]
    /\ test = t

Init == Start("off", NoTest, LibOff)
Next == Step(Full)
Spec == Init /\ [][Next]_vars

\* The inputs of the specification that compares two calls: one value of
\* each kind, so that a call can be met twice with arbitrary calls between.
Probe ==
    [ids |-> {<<1133, 7>>},
     sns |-> {<<>>, <<65>>},
     paths |-> {<<47, 104>>},
     firsts |-> {7},
     rids |-> {7},
     maxData |-> 1,
     minLength |-> 0,
     maxLength |-> 0,
     over |-> 0,
     faults |-> {FALSE},
     ms |-> {50},
     rcs |-> {-1, 0},
     errs |-> {Ptr(<<101, 0>>)},
     handles |-> {0, 1},
     idx |-> {3},
     strs |-> {<<72, 233, 0>>},
     maxNodes |-> 1,
     kinds |-> {1},
     layouts |-> {FALSE},
     junk |-> {170}]

\* The same calls under the inputs Probe; one finished call is remembered.
InitDet == Start("empty", NoTest, LibOff)
NextDet == Step(Probe)
SpecDet == InitDet /\ [][NextDet]_vars

\* The inputs of the specification that keeps track of the native library.
Few ==
    [Probe EXCEPT !.maxData = MaxData, !.maxLength = MaxLength, !.rcs = {-1, 0, 1},
                  !.handles = {0, 1, 2}, !.errs = {Null, Ptr(<<101, 0>>), Ptr(<<55296, 0>>)}]

\* The same calls under the inputs Few, with the state of the native
\* library and of the C allocator kept track of.
InitLib == Start("off", NoTest, NoLib)
NextLib == Step(Few)
SpecLib == InitLib /\ [][NextLib]_vars

\* The inputs of the specification where the read functions are given a
\* negative length and the native library claims more bytes than it was
\* asked for: an access outside the buffer finds unmapped memory or a
\* byte, which is the report ID (7) that set left there or another byte.
Wild ==
    [Few EXCEPT !.minLength = -1, !.over = 1, !.faults = BOOLEAN, !.junk = {7, 170}]

\* The same calls under the inputs Wild.  No call follows a fault: the
\* process has ended.
InitWild == Start("off", NoTest, LibOff)
NextWild == ret.err.type # "fault" /\ Step(Wild)
SpecWild == InitWild /\ [][NextWild]_vars

\* The inputs of the specification of lists with strings that cannot be
\* converted: up to MaxNodes nodes, each whole or with one such string.
Lists ==
    [Few EXCEPT !.maxNodes = MaxNodes, !.kinds = {1, 3, 4, 5}, !.layouts = BOOLEAN]

\* The same calls under the inputs Lists.
InitList == Start("off", NoTest, LibOff)
NextList == Step(Lists)
SpecList == InitList /\ [][NextList]_vars

-----------------------------------------------------------------------------
(* The test program (src/test/main.go): libTest as a process that makes    *)
(* its library calls one at a time.                                        *)

\* The inputs of the test program's run: lists of up to MaxNodes entries of
\* three kinds (two of them with the same vendor and product id), open
\* calls that fail or return one of two handles, descriptor reads that fail
\* or give L"H\u00e9", L"A\nB" or an unconvertible wide string.
TestInputs ==
    [Probe EXCEPT !.maxNodes = MaxNodes, !.kinds = {1, 2, 6}, !.handles = {0, 1, 2},
                  !.rcs = {-1, 0, 1},
                  !.strs = {<<72, 233, 0>>, <<65, 10, 66, 0>>, <<55296, 0>>}]

\* One library call of the run as libTest sees it: the call, the error and
\* the Device it returned.
Logged(o, r) == [op |-> o, err |-> r.err, dev |-> r.dev]

\* The end of one pass of the second loop of libTest: on to the next entry,
\* or out of the loop, where the function returns and the deferred Exit
\* runs.
Advance(t) ==
    IF t.i < Len(t.devs)
    THEN [t EXCEPT !.pc = "Open", !.i = @ + 1, !.dev = Null]
    ELSE [t EXCEPT !.pc = "Exit", !.dev = Null]

\* Faulty variant of the start of libTest: Exit is deferred before the
\* result of Init is looked at, so it also runs after a failed Init.
libTestInitDefersFirst(I) ==
    /\ test.pc = "Init"
    /\ \E rc \in I.rcs :
        LET r == hidapiInit(rc)
            o == GoCall("Init", Null, 0, 0, FALSE, <<>>)
        IN /\ Record(o, [NoNat EXCEPT !.rc = rc], r.calls, r.ret, devices)
           /\ test' = [test EXCEPT !.log = Append(@, Logged(o, r.ret)),
                                   !.pc = IF r.ret.err # NilError THEN "Exit" ELSE "Enumerate",
                                   !.result = r.ret.err]

\* err := hidapi.Init(); if err != nil { return err }; defer hidapi.Exit()
libTestInit(I) ==
    /\ test.pc = "Init"
    /\ \E rc \in I.rcs :
        LET r == hidapiInit(rc)
            o == GoCall("Init", Null, 0, 0, FALSE, <<>>)
        IN /\ Record(o, [NoNat EXCEPT !.rc = rc], r.calls, r.ret, devices)
           /\ test' = [test EXCEPT !.log = Append(@, Logged(o, r.ret)),
                                   !.pc = IF r.ret.err # NilError THEN "done" ELSE "Enumerate",
                                   !.result = r.ret.err]

\* devs := hidapi.Enumerate(0, 0)
libTestEnumerate(I) ==
    /\ test.pc = "Enumerate"
    /\ \E len \in 0..I.maxNodes, rev \in I.layouts :
        \E ks \in [1..len -> I.kinds] :
          LET mem == ListMem(ks, rev)
              order == ListOrder(ks, rev)
              head == IF len = 0 THEN 0 ELSE order[1]
              r == Enumerate(0, 0, head, mem)
              o == GoCall("Enumerate", Null, 0, 0, FALSE, <<>>)
              devs == IF IsNull(r.ret.list) THEN <<>> ELSE Deref(r.ret.list)
          IN /\ Record(o, [NoNat EXCEPT !.head = head, !.mem = mem, !.order = order],
                       r.calls, r.ret, devices)
             /\ test' = [test EXCEPT !.log = Append(@, Logged(o, r.ret)),
                                     !.devs = devs,
                                     !.nodes = [i \in DOMAIN order |-> mem[order[i]]],
                                     !.i = 1,
                                     !.pc = IF devs = <<>> THEN "Exit" ELSE "Show"]

\* for i, d := range devs { fmt.Printf(...) }: entry i is printed; no
\* library call is made.
libTestShow ==
    /\ test.pc = "Show"
    /\ test' = [test EXCEPT !.shown = Append(@, test.i),
                            !.i = IF test.i < Len(test.devs) THEN @ + 1 ELSE 1,
                            !.pc = IF test.i < Len(test.devs) THEN "Show" ELSE "Open"]
    /\ UNCHANGED <<devices, op, nat, calls, ret, memo, lib>>

\* The device a hid_open call addresses, as a place in the list of the
\* attached devices nodes (0 when there is none): the first one with the
\* vendor and product id, and with the serial number unless that is NULL.
hidOpenTarget(nodes, c) ==
    LET match == {j \in DOMAIN nodes :
                    /\ nodes[j].vendor_id = c.x
                    /\ nodes[j].product_id = c.y
                    /\ \/ IsNull(c.ptr)
                       \/ /\ ~IsNull(nodes[j].serial_number)
                          /\ UntilNul(Deref(nodes[j].serial_number)) = UntilNul(Deref(c.ptr))}
    IN IF match = {} THEN 0 ELSE CHOOSE j \in match : \A k \in match : j <= k

\* The devices addressed by the hid_open calls among the C calls cs, in
\* order.
Targets(nodes, cs) ==
    [k \in DOMAIN CallsOf(cs, "hid_open") |-> hidOpenTarget(nodes, CallsOf(cs, "hid_open")[k])]

\* Faulty variant of the Open of the loop body: the entry's serial number
\* is given as well.
libTestOpenBySerial(I) ==
    /\ test.pc = "Open"
    /\ \E h \in I.handles :
        LET di == test.devs[test.i]
            r == Open(di.VendorID, di.ProductID, di.SerialNumber, h)
            o == GoCall("Open", Null, di.VendorID, di.ProductID, FALSE, di.SerialNumber)
            rr == [NoRet EXCEPT !.err = r.err, !.dev = r.d]
            t == [test EXCEPT !.log = Append(@, Logged(o, rr)),
                              !.addressed = @ \o Targets(test.nodes, r.calls)]
        IN /\ Record(o, [NoNat EXCEPT !.h = h], r.calls, rr, WithDevice(r.d))
           /\ test' = IF r.err # NilError THEN Advance(t)
                      ELSE [t EXCEPT !.pc = "String", !.dev = r.d]

\* dev, err := hidapi.Open(di.VendorID, di.ProductID, ""); if err != nil {
\* print it; continue }
libTestOpen(I) ==
    /\ test.pc = "Open"
    /\ \E h \in I.handles :
        LET di == test.devs[test.i]
            r == Open(di.VendorID, di.ProductID, <<>>, h)
            o == GoCall("Open", Null, di.VendorID, di.ProductID, FALSE, <<>>)
            rr == [NoRet EXCEPT !.err = r.err, !.dev = r.d]
            t == [test EXCEPT !.log = Append(@, Logged(o, rr)),
                              !.addressed = @ \o Targets(test.nodes, r.calls)]
        IN /\ Record(o, [NoNat EXCEPT !.h = h], r.calls, rr, WithDevice(r.d))
           /\ test' = IF r.err # NilError THEN Advance(t)
                      ELSE [t EXCEPT !.pc = "String", !.dev = r.d]

\* fmt.Printf("%s\n", dev): dev.String() is called.
libTestString(I) ==
    /\ test.pc = "String"
    /\ \E n1 \in StringAnswers(I), n2 \in StringAnswers(I), n3 \in StringAnswers(I) :
      \E r \in {String(Deref(test.dev), <<n1, n2, n3>>)} :
        LET o == GoCall("String", test.dev, 0, 0, FALSE, <<>>)
        IN /\ Record(o, [NoNat EXCEPT !.parts = <<n1, n2, n3>>], r.calls, r.ret,
                     WithSelf(Deref(test.dev), r.self))
           /\ test' = [test EXCEPT !.log = Append(@, Logged(o, r.ret)), !.pc = "Close"]

\* Faulty variant of the end of the loop body: the Device is not closed.
libTestNoClose ==
    /\ test.pc = "Close"
    /\ test' = Advance(test)
    /\ UNCHANGED <<devices, op, nat, calls, ret, memo, lib>>

\* dev.Close(), the end of one pass of the loop: dev goes out of scope.
libTestClose ==
    /\ test.pc = "Close"
    /\ LET d == Deref(test.dev)
           r == Close(d)
           o == GoCall("Close", test.dev, 0, 0, FALSE, <<>>)
       IN /\ Record(o, NoNat, r.calls, r.ret, devices \ {d})
          /\ test' = Advance([test EXCEPT !.log = Append(@, Logged(o, r.ret))])

\* return nil, and the deferred hidapi.Exit() runs; its error is dropped.
libTestExit(I) ==
    /\ test.pc = "Exit"
    /\ \E rc \in I.rcs :
        LET r == Exit(rc)
            o == GoCall("Exit", Null, 0, 0, FALSE, <<>>)
        IN /\ Record(o, [NoNat EXCEPT !.rc = rc], r.calls, r.ret, devices)
           /\ test' = [test EXCEPT !.log = Append(@, Logged(o, r.ret)),
                                   !.pc = "done",
                                   !.result = NilError]

\* libTest is called.
InitTest == Start("off", [NoTest EXCEPT !.pc = "Init"], LibOff)
NextTest ==
    \/ libTestInit(TestInputs)
    \/ libTestEnumerate(TestInputs)
    \/ libTestShow
    \/ libTestOpen(TestInputs)
    \/ libTestString(TestInputs)
    \/ libTestClose
    \/ libTestExit(TestInputs)
SpecTest == InitTest /\ [][NextTest]_vars

-----------------------------------------------------------------------------
(* Properties.                                                             *)

\* The native function each Go function wraps.
Wrapped ==
    [Init |-> "hid_init", Exit |-> "hid_exit", Open |-> "hid_open",
     OpenPath |-> "hid_open_path", Write |-> "hid_write", Read |-> "hid_read",
     ReadTimeout |-> "hid_read_timeout", SetNonBlocking |-> "hid_set_nonblocking",
     SendFeatureReport |-> "hid_send_feature_report",
     GetFeatureReport |-> "hid_get_feature_report", Close |-> "hid_close",
     GetManufacturerString |-> "hid_get_manufacturer_string",
     GetProductString |-> "hid_get_product_string",
     GetSerialNumberString |-> "hid_get_serial_number_string",
     GetIndexedString |-> "hid_get_indexed_string", ErrorString |-> "hid_error",
     Enumerate |-> "hid_enumerate"]

\* The functions of the C API.
HidApi ==
    {"hid_init", "hid_exit", "hid_enumerate", "hid_free_enumeration", "hid_open",
     "hid_open_path", "hid_write", "hid_read_timeout", "hid_read", "hid_set_nonblocking",
     "hid_send_feature_report", "hid_get_feature_report", "hid_close",
     "hid_get_manufacturer_string", "hid_get_product_string",
     "hid_get_serial_number_string", "hid_get_indexed_string", "hid_error"}

\* The Go functions C1 names.
PassThroughOps == (DOMAIN Wrapped) \ {"Enumerate"}

\* The calls the last Go call made to the function it wraps.
WrappedCalls == CallsOf(calls, Wrapped[op.name])

\* A serial number argument that is no valid UTF-8.
BadSerial == op.s # <<>> /\ ~Utf8Decode(op.s).ok

\* C1 as stated: one call of any of the sixteen Go functions makes exactly
\* one call of the native function it wraps, whatever that call returns.
C1_ExactlyOneNativeCall ==
    op.name \in PassThroughOps => Len(WrappedCalls) = 1

\* C1, amended: one call of any of the sixteen Go functions makes exactly one
\* call of the native function it wraps, whatever that call returns, except
\* that Open with a non-empty serial number that cannot be converted to wide
\* characters makes no hid_open call at all.
C1_OneNativeCallUnlessBadSerial ==
    op.name \in PassThroughOps =>
        Len(WrappedCalls) = (IF op.name = "Open" /\ BadSerial THEN 0 ELSE 1)

\* C1 witness: a Write whose native call failed was made once, not retried.
C1_FailedWriteCalledOnce ==
    /\ op.name = "Write"
    /\ nat.rc = -1
    /\ Len(CallsOf(calls, "hid_write")) = 1
    /\ ret.err.type = "Error"

\* C2 as stated: the Go functions and the C-API functions map one to one, so
\* a Go function calls no C-API function other than the one it wraps (and
\* hid_error, to describe a failure).
C2_OneToOneMapping ==
    op.name \in DOMAIN Wrapped =>
        \A i \in DOMAIN calls :
            calls[i].fn \in HidApi => calls[i].fn \in {Wrapped[op.name], "hid_error"}

\* C3, the remembered call against the last call: the same Go function on
\* the same receiver with the same arguments and the same native responses
\* made the same C calls and returned the same values.
SameCallSameOutcome ==
    IF memo.state = "set"
    THEN IF memo.op = op
         THEN IF memo.nat = nat THEN memo.calls = calls /\ memo.ret = ret ELSE TRUE
         ELSE TRUE
    ELSE TRUE

C4_InitExitErrors ==
    op.name \in {"Init", "Exit"} =>
        /\ (ret.err = NilError) <=> (nat.rc = 0)
        /\ nat.rc # 0 =>
             /\ ret.err.type = "Error"
             /\ ret.err.FunctionName = (IF op.name = "Init" THEN "hid_init" ELSE "hid_exit")
             /\ ret.err.ReturnCode = nat.rc
             /\ ret.err.ErrorString = <<>>
        /\ CallsOf(calls, "hid_error") = <<>>
        /\ Len(calls) = 1
        /\ calls[1].ret = nat.rc

\* C4 witness: Init failed with a positive return code.
C4_InitPositiveCode ==
    /\ op.name = "Init"
    /\ nat.rc = 1
    /\ ret.err.type = "Error"
    /\ ret.err.ReturnCode = 1

\* The native open calls of the last Go call.
OpenCalls == CallsOf(calls, "hid_open") \o CallsOf(calls, "hid_open_path")

\* C5: Open and OpenPath return exactly one of a Device and an error; a
\* Device exactly when the native open call returned a handle that is not
\* NULL, and that Device holds exactly that handle; after a NULL handle the
\* Device is nil and the error is not.
C5_OpenDeviceOrError ==
    op.name \in {"Open", "OpenPath"} =>
        /\ IsNull(ret.dev) <=> (ret.err # NilError)
        /\ ~IsNull(ret.dev) <=> (OpenCalls # <<>> /\ OpenCalls[1].ret # 0)
        /\ ~IsNull(ret.dev) =>
             /\ Deref(ret.dev).dev = OpenCalls[1].ret
             /\ Deref(ret.dev).dev = nat.h
             /\ Deref(ret.dev) \in devices
        /\ (OpenCalls # <<>> /\ OpenCalls[1].ret = 0) =>
             IsNull(ret.dev) /\ ret.err # NilError

\* C5 witness: OpenPath got handle 2 and returned a Device holding it.
C5_OpenPathHoldsHandle ==
    /\ op.name = "OpenPath"
    /\ nat.h = 2
    /\ ret.dev = Ptr([dev |-> 2])
    /\ ret.err = NilError

\* The wide string w is NUL-terminated and reads back as the Go string s.
IsWideOf(w, s) ==
    /\ w # <<>>
    /\ w[Len(w)] = 0
    /\ \A i \in 1..(Len(w) - 1) : w[i] # 0
    /\ Utf8Encode(SubSeq(w, 1, Len(w) - 1)) = [ok |-> TRUE, s |-> s]

\* Open made one hid_open call, with vid and pid as given, a NULL serial
\* number for "" and else the wide-character conversion of the serial number.
OpenPassesArguments ==
    /\ Len(CallsOf(calls, "hid_open")) = 1
    /\ LET c == CallsOf(calls, "hid_open")[1]
       IN /\ c.x = op.x
          /\ c.y = op.y
          /\ (op.s = <<>>) => IsNull(c.ptr)
          /\ (op.s # <<>>) => (~IsNull(c.ptr) /\ IsWideOf(Deref(c.ptr), op.s))

\* C6 as stated: Open passes vid and pid unchanged to hid_open, NULL for an
\* empty serial number, and the wide-character conversion of a non-empty
\* one, never NULL.
C6_OpenPassesSerial ==
    op.name = "Open" => OpenPassesArguments

\* C6, amended: Open passes vid and pid unchanged to hid_open, NULL for an
\* empty serial number, and the wide-character conversion of a non-empty
\* one that can be converted, never NULL; for a non-empty serial number that
\* cannot be converted Open makes no hid_open call and returns a nil Device
\* and an error.
C6_OpenPassesConvertibleSerial ==
    op.name = "Open" =>
        IF BadSerial
        THEN calls = <<>> /\ IsNull(ret.dev) /\ ret.err.type = "errorString"
        ELSE OpenPassesArguments

\* C6 witness: the serial number e-acute reached hid_open as L"é".
C6_TwoByteSerialPassed ==
    /\ op.name = "Open"
    /\ op.s = <<195, 169>>
    /\ op.x = 1133
    /\ Len(calls) = 1
    /\ calls[1].ptr = Ptr(<<233, 0>>)
    /\ calls[1].x = 1133
    /\ calls[1].y = 7

\* The i-th DeviceInfo returned carries the fields of the i-th node of the
\* native list.
CarriesNode(info, node) ==
    /\ IF IsNull(node.path) THEN info.Path = <<>> ELSE info.Path \o <<0>> = Deref(node.path)
    /\ info.VendorID = node.vendor_id
    /\ info.ProductID = node.product_id
    /\ info.ReleaseNumber = node.release_number
    /\ info.UsagePage = node.usage_page
    /\ info.Usage = node.usage
    /\ info.InterfaceNumber = node.interface_number

\* C7: Enumerate passes vid and pid unchanged to hid_enumerate, returns nil
\* exactly when that returns NULL, and else returns one DeviceInfo per node
\* of the native list, in list order, each with the node's path, vendor id,
\* product id, release number, usage page, usage and interface number.
C7_EnumerateList ==
    op.name = "Enumerate" =>
        /\ calls # <<>>
        /\ calls[1].fn = "hid_enumerate"
        /\ calls[1].x = op.x
        /\ calls[1].y = op.y
        /\ Len(CallsOf(calls, "hid_enumerate")) = 1
        /\ IsNull(ret.list) <=> (nat.head = 0)
        /\ nat.head # 0 =>
             LET l == Deref(ret.list)
             IN /\ Len(l) = Len(nat.order)
                /\ \A i \in DOMAIN l : CarriesNode(l[i], nat.mem[nat.order[i]])

\* C7 witness: a list of two different nodes, laid out in memory against
\* list order, came back as two entries.
C7_TwoNodesReversedLayout ==
    /\ op.name = "Enumerate"
    /\ nat.order = <<2, 1>>
    /\ nat.mem[2].vendor_id # nat.mem[1].vendor_id
    /\ ~IsNull(ret.list)
    /\ Len(Deref(ret.list)) = 2
    /\ Deref(ret.list)[1].VendorID = nat.mem[2].vendor_id

\* The places in the call log of the calls of function fn.
Places(fn) == {i \in DOMAIN calls : calls[i].fn = fn}

\* C8: every list hid_enumerate returns is freed by exactly one
\* hid_free_enumeration call, on the head of the list, made after every node
\* was read and last of all; no node is read after it, and when
\* hid_enumerate returns NULL there is no such call.
C8_ListFreedOnce ==
    op.name = "Enumerate" =>
        IF nat.head = 0
        THEN Places("hid_free_enumeration") = {} /\ Places("read_node") = {}
        ELSE /\ Cardinality(Places("hid_free_enumeration")) = 1
             /\ calls[Len(calls)].fn = "hid_free_enumeration"
             /\ calls[Len(calls)].x = nat.head
             /\ \A i \in Places("read_node") : i < Len(calls)
             /\ \A k \in DOMAIN nat.order :
                    \E i \in Places("read_node") : calls[i].x = nat.order[k]
             /\ Cardinality(Places("read_node")) = Len(nat.order)

\* C8 witness: a list of two nodes was read and then freed at its head.
C8_TwoNodesThenFree ==
    /\ op.name = "Enumerate"
    /\ Len(nat.order) = 2
    /\ Len(calls) = 4
    /\ calls[4].fn = "hid_free_enumeration"
    /\ calls[4].x = nat.head
    /\ calls[3].fn = "read_node"

\* C9: Write and SendFeatureReport return nil exactly when the native return
\* code equals len(data); a negative code gives an *Error with the native
\* function's name and that code, any other code an "only wrote" error; the
\* Device holds the same handle afterwards.
C9_WriteResult ==
    op.name \in {"Write", "SendFeatureReport"} =>
        LET fn == Wrapped[op.name]
            len == Len(op.s)
        IN /\ (ret.err = NilError) <=> (nat.rc = len)
           /\ nat.rc < 0 =>
                /\ ret.err.type = "Error"
                /\ ret.err.FunctionName = fn
                /\ ret.err.ReturnCode = nat.rc
           /\ (nat.rc >= 0 /\ nat.rc # len) =>
                /\ ret.err.type = "errorString"
                /\ ret.err.text = (IF op.name = "Write"
                                   THEN "hid_write() only wrote %d of %d bytes"
                                   ELSE "hid_send_feature_report() only wrote %d of %d bytes")
                /\ ret.err.n = nat.rc
                /\ ret.err.of = len
           /\ Deref(op.d) \in devices
           /\ WrappedCalls # <<>> /\ WrappedCalls[1].ret = nat.rc

\* C9 witness: the native write reported one byte more than it was given.
C9_WroteMoreThanGiven ==
    /\ op.name = "Write"
    /\ Len(op.s) = 2
    /\ nat.rc = 3
    /\ ret.err.type = "errorString"
    /\ ret.err.n = 3

\* C10: Write and SendFeatureReport give the native function a buffer whose
\* first len(data) bytes are data and the length len(data): nothing is put
\* before the caller's first byte, and no byte is added or removed.
C10_WriteBuffer ==
    op.name \in {"Write", "SendFeatureReport"} =>
        /\ Len(WrappedCalls) = 1
        /\ LET c == WrappedCalls[1]
           IN /\ c.x = Len(op.s)
              /\ ~IsNull(c.ptr)
              /\ Len(Deref(c.ptr)) = Len(op.s)
              /\ \A i \in 1..Len(op.s) : Deref(c.ptr)[i] = op.s[i]

\* C10 witness: the two bytes 7, 8 reached hid_send_feature_report.
C10_TwoBytesPassed ==
    /\ op.name = "SendFeatureReport"
    /\ op.s = <<7, 8>>
    /\ Len(calls) >= 2
    /\ calls[2].fn = "hid_send_feature_report"
    /\ calls[2].ptr = Ptr(<<7, 8>>)
    /\ calls[2].x = 2

\* The Go functions that read a report into a buffer of length + 1 bytes.
ReadOps == {"Read", "ReadTimeout", "GetFeatureReport"}

\* C11: Read, ReadTimeout and GetFeatureReport allocate length + 1 bytes and
\* make one native call that asks for exactly length + 1 bytes, with a
\* buffer of length + 1 bytes whose byte 0 is the report ID at that moment;
\* ReadTimeout passes its milliseconds argument unchanged.
C11_ReadRequest ==
    op.name \in ReadOps =>
        /\ Len(WrappedCalls) = 1
        /\ calls[1].fn = "malloc"
        /\ calls[1].x = op.x + 1
        /\ calls[2] = WrappedCalls[1]
        /\ LET c == WrappedCalls[1]
           IN /\ c.x = op.x + 1
              /\ ~IsNull(c.ptr)
              /\ Len(Deref(c.ptr)) = op.x + 1
              /\ Deref(c.ptr)[1] = op.s[1]
              /\ c.dev = Deref(op.d).dev
              /\ (op.name = "ReadTimeout") => c.y = op.y

\* C11 witness: a blocking ReadTimeout (-1) of length 1 with report ID 7
\* asked for 2 bytes in a buffer that starts with 7.
C11_BlockingReadOfTwoBytes ==
    /\ op.name = "ReadTimeout"
    /\ op.x = 1
    /\ op.y = -1
    /\ op.s = <<7>>
    /\ Len(calls) >= 2
    /\ calls[2].fn = "hid_read_timeout"
    /\ calls[2].x = 2
    /\ calls[2].y = -1
    /\ Deref(calls[2].ptr) = <<7, 170>>

\* C12: Read, ReadTimeout and GetFeatureReport return exactly one of data
\* and error.  A native return code rc > 0 gives a slice of exactly rc bytes,
\* the first rc bytes of the native buffer, and a nil error; rc = 0 gives nil
\* data and an error that is no *Error, without a hid_error call; rc < 0
\* gives nil data and an *Error with the native function's name and rc.
C12_ReadResult ==
    op.name \in ReadOps =>
        /\ Len(WrappedCalls) = 1
        /\ WrappedCalls[1].ret = nat.rc
        /\ IsNull(ret.data) <=> (ret.err # NilError)
        /\ nat.rc > 0 =>
             /\ ret.err = NilError
             /\ ~IsNull(ret.data)
             /\ Len(Deref(ret.data)) = nat.rc
             /\ \A i \in 1..nat.rc : Deref(ret.data)[i] = Deref(WrappedCalls[1].rptr)[i]
        /\ nat.rc = 0 =>
             /\ IsNull(ret.data)
             /\ ret.err.type = "errorString"
             /\ CallsOf(calls, "hid_error") = <<>>
        /\ nat.rc < 0 =>
             /\ IsNull(ret.data)
             /\ ret.err.type = "Error"
             /\ ret.err.FunctionName = Wrapped[op.name]
             /\ ret.err.ReturnCode = nat.rc

\* C12 witness: GetFeatureReport asked for 2 bytes, the library wrote 1 (the
\* byte 7) and the slice returned is that one byte.
C12_OneByteOfTwo ==
    /\ op.name = "GetFeatureReport"
    /\ op.x = 1
    /\ op.s = <<0>>
    /\ nat.rc = 1
    /\ ret.data = Ptr(<<7>>)
    /\ ret.err = NilError

\* The handle of the receiver of the last Go call.
Handle == Deref(op.d).dev

\* C13: SetNonBlocking can be called on any Device at any time; each call
\* makes one hid_set_nonblocking call with 1 for true and 0 for false,
\* returns nil exactly when that call returns 0 and an *Error otherwise, and
\* leaves the Device as it is.  The mode is kept by the native library
\* alone: after an accepted call the handle is in the mode asked for, and a
\* Read on an open handle returns the zero-byte error only while the last
\* mode the library accepted for it is non-blocking.
C13_NonBlockingMode ==
    /\ (devices # {}) => ENABLED CallSetNonBlocking(Few)
    /\ op.name = "SetNonBlocking" =>
         /\ Len(WrappedCalls) = 1
         /\ calls[1] = WrappedCalls[1]
         /\ calls[1].dev = Handle
         /\ calls[1].x = (IF op.b THEN 1 ELSE 0)
         /\ calls[1].ret = nat.rc
         /\ (ret.err = NilError) <=> (nat.rc = 0)
         /\ nat.rc # 0 =>
              /\ ret.err.type = "Error"
              /\ ret.err.FunctionName = "hid_set_nonblocking"
              /\ ret.err.ReturnCode = nat.rc
         /\ Deref(op.d) \in devices
         /\ (nat.rc = 0 /\ Handle \notin lib.closed) =>
              ((Handle \in lib.nonblocking) <=> op.b)
    /\ (/\ op.name = "Read"
        /\ ret.err = ErrorsNew("hid_read() read 0 bytes")
        /\ Handle \notin lib.closed) => Handle \in lib.nonblocking

\* C13 witness: a Read found no packet on an open handle that an earlier
\* SetNonBlocking(true) had put in non-blocking mode.
C13_ReadNothingWhenNonBlocking ==
    /\ op.name = "Read"
    /\ nat.rc = 0
    /\ ret.err = ErrorsNew("hid_read() read 0 bytes")
    /\ Handle \in lib.nonblocking
    /\ Handle \notin lib.closed

\* The Go functions that read a string descriptor.
StringOps ==
    {"GetManufacturerString", "GetProductString", "GetSerialNumberString",
     "GetIndexedString"}

\* C14: the four string getters make one native call with a buffer of 128
\* wide characters and maxlen 128 (GetIndexedString with its index
\* unchanged); a return code other than 0 gives the empty string and an
\* *Error with the native function's name and that code; return code 0
\* gives the conversion of the buffer: the UTF-8 string of the wide
\* characters before the first 0, or the conversion's error.
C14_StringGetters ==
    op.name \in StringOps =>
        /\ Len(WrappedCalls) = 1
        /\ LET c == WrappedCalls[1]
               w == UntilNul(Deref(c.rptr))
           IN /\ calls[1] = c
              /\ c.dev = Handle
              /\ c.x = 128
              /\ Len(Deref(c.ptr)) = 128
              /\ c.ret = nat.rc
              /\ (op.name = "GetIndexedString") => c.y = op.x
              /\ nat.rc # 0 =>
                   /\ ret.str = <<>>
                   /\ ret.err.type = "Error"
                   /\ ret.err.FunctionName = Wrapped[op.name]
                   /\ ret.err.ReturnCode = nat.rc
              /\ nat.rc = 0 =>
                   IF \A i \in DOMAIN w : IsScalar(w[i])
                   THEN ret.err = NilError /\ Utf8Decode(ret.str) = [ok |-> TRUE, ws |-> w]
                   ELSE ret.err.type = "errorString" /\ ret.str = <<>>

\* C14 witness: GetIndexedString(3) read L"Hé" and returned it in UTF-8.
C14_IndexedStringConverted ==
    /\ op.name = "GetIndexedString"
    /\ op.x = 3
    /\ nat.rc = 0
    /\ calls[1].y = 3
    /\ ret.str = <<72, 195, 169>>
    /\ ret.err = NilError

\* The name of the i-th library call of the test program's run.
LogName(i) == test.log[i].op.name

\* The library calls of the run made so far with name in names.
LogPlaces(names) == {i \in DOMAIN test.log : LogName(i) \in names}

\* C15: in libTest Init is the first library call and is made once; after a
\* failed Init no other library call is made and libTest returns that
\* error; after a successful Init Exit is called once, as the last library
\* call of the run, after which libTest has returned, and libTest returns
\* nil whatever Open and Exit returned.
C15_InitFirstExitLast ==
    /\ test.pc = "Init" <=> test.log = <<>>
    /\ test.log # <<>> =>
         /\ LogPlaces({"Init"}) = {1}
         /\ test.log[1].err # NilError =>
              /\ Len(test.log) = 1
              /\ test.pc = "done"
              /\ test.result = test.log[1].err
         /\ \A i \in LogPlaces({"Exit"}) : i = Len(test.log) /\ test.pc = "done"
         /\ (test.pc = "done" /\ test.log[1].err = NilError) =>
              /\ LogPlaces({"Exit"}) = {Len(test.log)}
              /\ test.result = NilError

\* C15 witness: a finished run in which an Open failed and Exit returned an
\* error, and libTest returned nil.
C15_NilAfterFailedOpenAndExit ==
    /\ test.pc = "done"
    /\ test.result = NilError
    /\ \E i \in LogPlaces({"Open"}) : test.log[i].err # NilError
    /\ LogName(Len(test.log)) = "Exit"
    /\ test.log[Len(test.log)].err.type = "Error"

\* The i-th library call of the run is an Open that returned a Device.
Opened(i) == LogName(i) = "Open" /\ test.log[i].err = NilError

\* C16: in libTest a Device that Open returned is printed and then closed,
\* once, before the next Open and before Exit, so that at most one Device
\* is open at a time and none when Exit runs; after a failed Open no
\* descriptor is read and nothing is closed, and the loop goes on: in a
\* finished run there is one Open per enumerated entry.
C16_OpenedDeviceClosedOnce ==
    /\ \A i \in DOMAIN test.log :
         /\ Opened(i) =>
              /\ ~IsNull(test.log[i].dev)
              /\ IF i + 1 <= Len(test.log)
                 THEN LogName(i + 1) = "String" /\ test.log[i + 1].op.d = test.log[i].dev
                 ELSE test.pc = "String" /\ test.dev = test.log[i].dev
              /\ IF i + 2 <= Len(test.log)
                 THEN LogName(i + 2) = "Close" /\ test.log[i + 2].op.d = test.log[i].dev
                 ELSE test.pc \in {"String", "Close"}
         /\ (LogName(i) = "Open" /\ test.log[i].err # NilError /\ i < Len(test.log)) =>
              LogName(i + 1) \in {"Open", "Exit"}
         /\ LogName(i) = "Close" => (i > 2 /\ Opened(i - 2))
         /\ LogName(i) = "String" => (i > 1 /\ Opened(i - 1))
    /\ Cardinality(devices) <= 1
    /\ Cardinality({i \in DOMAIN test.log : Opened(i)})
         - Cardinality(LogPlaces({"Close"})) \in {0, 1}
    /\ test.pc \in {"Open", "Exit", "done"} =>
         /\ devices = {}
         /\ Cardinality({i \in DOMAIN test.log : Opened(i)})
              = Cardinality(LogPlaces({"Close"}))
    /\ (test.pc \in {"Exit", "done"} /\ test.log[1].err = NilError) =>
         Cardinality(LogPlaces({"Open"})) = Len(test.devs)

\* C16 witness: a finished run whose first Open failed and whose second
\* Open returned a Device that was printed and closed before Exit.
C16_FailedOpenThenClosedDevice ==
    /\ test.pc = "done"
    /\ Len(test.log) = 7
    /\ [i \in 1..7 |-> LogName(i)]
         = <<"Init", "Enumerate", "Open", "Open", "String", "Close", "Exit">>
    /\ test.log[3].err # NilError
    /\ test.log[6].op.d = test.log[4].dev

\* The device operations that report a failure of their native call, and
\* whether the last one failed: a negative return code for the reads and
\* writes, any other than 0 for SetNonBlocking and the string getters.
DeviceOps == {"Write", "SendFeatureReport", "SetNonBlocking"} \cup ReadOps \cup StringOps
Failed ==
    IF op.name \in {"Write", "SendFeatureReport"} \cup ReadOps THEN nat.rc < 0
    ELSE nat.rc # 0

\* The wide characters hid_error returned (none for NULL).
ErrorText(c) == IF IsNull(c.rptr) THEN <<>> ELSE UntilNul(Deref(c.rptr))

\* C17: a device operation that fails makes exactly one hid_error call, on
\* the handle of its Device, after the failing native call and before its
\* C buffer is freed, and returns an *Error whose ErrorString is the text
\* hid_error returned, converted, or "?" when the text cannot be converted;
\* an operation that does not fail (success, zero bytes read, short write)
\* makes no hid_error call.
C17_OneErrorTextPerFailure ==
    op.name \in DeviceOps =>
        IF Failed
        THEN /\ Cardinality(Places("hid_error")) = 1
             /\ \A k \in Places("hid_error") :
                  /\ calls[k].dev = Handle
                  /\ \A i \in Places(Wrapped[op.name]) : i < k
                  /\ \A i \in Places("free") : k < i
                  /\ IF \A j \in DOMAIN ErrorText(calls[k]) : IsScalar(ErrorText(calls[k])[j])
                     THEN Utf8Decode(ret.err.ErrorString)
                            = [ok |-> TRUE, ws |-> ErrorText(calls[k])]
                     ELSE ret.err.ErrorString = <<63>>
             /\ ret.err.type = "Error"
        ELSE Places("hid_error") = {}

\* C17 witness: a failed Read whose error text could not be converted: the
\* calls were malloc, hid_read, hid_error, free and the ErrorString is "?".
C17_FailedReadUnconvertibleText ==
    /\ op.name = "Read"
    /\ nat.rc = -1
    /\ Len(calls) = 4
    /\ [i \in 1..4 |-> calls[i].fn] = <<"malloc", "hid_read", "hid_error", "free">>
    /\ calls[3].rptr = Ptr(<<55296, 0>>)
    /\ ret.err.ErrorString = <<63>>

\* The number a run of decimal digits stands for.
RECURSIVE DecimalValue(_)
DecimalValue(ds) ==
    IF ds = <<>> THEN 0 ELSE 10 * DecimalValue(SubSeq(ds, 1, Len(ds) - 1)) + (ds[Len(ds)] - 48)

\* The text t is "<FunctionName>() returned <ReturnCode>" of the *Error e,
\* followed by ": <ErrorString>" exactly when wanted.
IsErrorText(t, e, withText) ==
    LET head == <<40, 41, 32, 114, 101, 116, 117, 114, 110, 101, 100, 32>>
        after == SubSeq(t.rest, 13, Len(t.rest))
        colon == IF \E i \in DOMAIN after : after[i] = 58
                 THEN CHOOSE i \in DOMAIN after :
                        after[i] = 58 /\ \A j \in 1..(i - 1) : after[j] # 58
                 ELSE Len(after) + 1
        number == SubSeq(after, 1, colon - 1)
        digits == IF number # <<>> /\ number[1] = 45 THEN Tail(number) ELSE number
    IN /\ t.name = e.FunctionName
       /\ SubSeq(t.rest, 1, 12) = head
       /\ digits # <<>>
       /\ \A i \in DOMAIN digits : digits[i] \in 48..57
       /\ e.ReturnCode = (IF number[1] = 45 THEN 0 - DecimalValue(digits)
                          ELSE DecimalValue(digits))
       /\ IF withText
          THEN SubSeq(after, colon, Len(after)) = <<58, 32>> \o e.ErrorString
          ELSE colon = Len(after) + 1

\* C18: the text of Error() holds the FunctionName and the ReturnCode, and
\* after them a colon and the ErrorString exactly when the ErrorString is
\* not empty.  So the text of an error of Init or Exit (apiError) has no
\* device error text, and the text of the error of a failed device
\* operation (devError) has one exactly when hid_error returned a text that
\* is not empty or cannot be converted.
C18_ErrorText ==
    /\ op.name = "Error" =>
         IsErrorText(ret.str, Deref(op.d), Deref(op.d).ErrorString # <<>>)
    /\ (op.name \in {"Init", "Exit"} /\ ret.err.type = "Error") =>
         IsErrorText(Error(ret.err), ret.err, FALSE)
    /\ (op.name \in DeviceOps /\ ret.err.type = "Error") =>
         \A k \in Places("hid_error") :
             IsErrorText(Error(ret.err), ret.err, ErrorText(calls[k]) # <<>>)

\* C18 witness: Error() on the error of a failed hid_write (code -1, text
\* "e") gave "hid_write() returned -1: e".
C18_WriteErrorWithText ==
    /\ op.name = "Error"
    /\ Deref(op.d).FunctionName = "hid_write"
    /\ ret.str = [name |-> "hid_write",
                  rest |-> <<40, 41, 32, 114, 101, 116, 117, 114, 110, 101, 100, 32,
                             45, 49, 58, 32, 101>>]

\* The Go functions that allocate a C buffer or a C string.
BufferOps == {"Write", "SendFeatureReport", "OpenPath"} \cup ReadOps

\* C19: no C buffer allocated by the wrapper is outstanding after any call;
\* Write, SendFeatureReport, Read, ReadTimeout, GetFeatureReport and OpenPath
\* each allocate one C buffer (or C string) as their first C call and free
\* it, once, as their last C call, whatever the native call returned: the
\* native calls that use the buffer lie between, none after the free.
C19_NoBufferOutstanding ==
    /\ lib.heap = 0
    /\ op.name \in BufferOps =>
         /\ Places("malloc") \cup Places("CString") = {1}
         /\ Places("free") = {Len(calls)}
         /\ Len(calls) >= 3
         /\ Places(Wrapped[op.name]) = {2}
         /\ ~IsNull(calls[Len(calls)].ptr)
         /\ Deref(calls[Len(calls)].ptr)
              = (IF op.name \in ReadOps THEN Deref(calls[2].rptr) ELSE Deref(calls[2].ptr))
         /\ Len(Deref(calls[Len(calls)].ptr))
              = (IF op.name = "OpenPath" THEN calls[1].x + 1 ELSE calls[1].x)
    /\ op.name \notin BufferOps =>
         Places("malloc") \cup Places("CString") \cup Places("free") = {}

\* C19 witness: a short write (1 of 2 bytes) allocated, wrote and freed.
C19_ShortWriteFreed ==
    /\ op.name = "Write"
    /\ Len(op.s) = 2
    /\ nat.rc = 1
    /\ [i \in DOMAIN calls |-> calls[i].fn] = <<"malloc", "hid_write", "free">>
    /\ lib.heap = 0

\* The methods of Device, and whether the native call of the last one
\* reported success.
Methods == DeviceOps \cup {"Close", "ErrorString"}
NativeSuccess ==
    CASE op.name \in {"Write", "SendFeatureReport"} -> nat.rc = Len(op.s)
      [] op.name \in ReadOps -> nat.rc > 0
      [] op.name = "SetNonBlocking" -> nat.rc = 0
      [] op.name \in StringOps -> nat.rc = 0 /\ \A i \in DOMAIN UntilNul(nat.out) :
                                                   IsScalar(UntilNul(nat.out)[i])
      [] op.name = "ErrorString" -> \A i \in DOMAIN ErrorText(calls[1]) :
                                        IsScalar(ErrorText(calls[1])[i])
      [] OTHER -> TRUE

\* C20: Close makes exactly one hid_close call, with the handle stored in
\* the Device, returns nothing and leaves the Device holding that handle.
\* So every later method call on the Device, a second Close included,
\* passes the closed handle to the native library, and the wrapper reports
\* no error of its own: what it returns follows the native call alone.
C20_CloseKeepsHandle ==
    /\ op.name = "Close" =>
         /\ calls = <<Call("hid_close", Handle, 0, 0, Null, 0, Null)>>
         /\ ret = NoRet
         /\ Deref(op.d) \in devices
         /\ Handle \in lib.closed
    /\ (op.name \in Methods /\ Handle \in lib.closed) =>
         /\ Deref(op.d) \in devices
         /\ Places(Wrapped[op.name]) # {}
         /\ \A i \in Places(Wrapped[op.name]) \cup Places("hid_error") :
                calls[i].dev = Handle
         /\ NativeSuccess => ret.err = NilError

\* C20 witness: a second Close of a Device passed the closed handle to
\* hid_close again and returned nothing.
C20_SecondClose ==
    /\ op.name = "Close"
    /\ Handle \in lib.twice
    /\ calls[1].dev = Handle
    /\ ret = NoRet


\* C21: for a length >= 0 the read functions put the report ID at index 0
\* of an allocated buffer of length + 1 >= 1 bytes, so inside it, and no
\* access faults as long as the native function returns no more bytes than
\* it was asked for; then every slice returned has between 1 and length + 1
\* bytes.  The return code is not clamped: when the native function returns
\* rc > length + 1, the copy reads rc bytes from a buffer of length + 1, and
\* either faults or gives a slice of rc bytes.
C21_SliceWithinBuffer ==
    (op.name \in ReadOps /\ op.x >= 0) =>
        /\ calls[1].fn = "malloc"
        /\ calls[1].x = op.x + 1
        /\ 0 < calls[1].x
        /\ Len(WrappedCalls) = 1
        /\ Len(Deref(WrappedCalls[1].ptr)) = calls[1].x
        /\ Deref(WrappedCalls[1].ptr)[0 + 1] = op.s[1]
        /\ nat.rc <= op.x + 1 =>
             /\ ret.err.type # "fault"
             /\ ~IsNull(ret.data) =>
                  /\ Len(Deref(ret.data)) >= 1
                  /\ Len(Deref(ret.data)) <= op.x + 1
        /\ nat.rc > op.x + 1 =>
             \/ ret.err.type = "fault"
             \/ /\ ret.err = NilError
                /\ ~IsNull(ret.data)
                /\ Len(Deref(ret.data)) = nat.rc
                /\ Len(Deref(ret.data)) > Len(Deref(WrappedCalls[1].rptr))

\* C21 witness: Read of length 1 got the return code 3 for its buffer of 2
\* bytes and returned 3 bytes, the last one from outside the buffer.
C21_ThreeBytesFromTwo ==
    /\ op.name = "Read"
    /\ op.x = 1
    /\ nat.rc = 3
    /\ Len(Deref(calls[2].rptr)) = 2
    /\ ret.data = Ptr(<<7, 8, 170>>)

\* The native functions Device.String reads the descriptors with, and the
\* labels "manufacturer: ", "product: " and "serial number: ".
Descriptors ==
    <<"hid_get_manufacturer_string", "hid_get_product_string",
      "hid_get_serial_number_string">>
Labels ==
    <<<<109, 97, 110, 117, 102, 97, 99, 116, 117, 114, 101, 114, 58, 32>>,
      <<112, 114, 111, 100, 117, 99, 116, 58, 32>>,
      <<115, 101, 114, 105, 97, 108, 32, 110, 117, 109, 98, 101, 114, 58, 32>>>>

\* The descriptor reads of the last call, and what read i found: whether it
\* gave a string without error, and the UTF-8 text of the string in the
\* buffer.
DescriptorCalls == SelectSeq(calls, LAMBDA c : c.fn # "hid_error")
DescriptorText(i) == wcharGoString(Deref(DescriptorCalls[i].rptr))
ReadOk(i) == DescriptorCalls[i].ret = 0 /\ DescriptorText(i).err = NilError
Entry(i) == IF ReadOk(i) THEN <<Labels[i] \o DescriptorText(i).str>> ELSE <<>>

\* The entries es with a line feed between each two.
WithLineFeeds(es) ==
    CASE Len(es) = 0 -> <<>>
      [] Len(es) = 1 -> es[1]
      [] Len(es) = 2 -> es[1] \o <<10>> \o es[2]
      [] OTHER -> es[1] \o <<10>> \o es[2] \o <<10>> \o es[3]

\* The number of line feeds of a text, and its number of lines: none in the
\* empty text, otherwise one more than there are line feeds.
LineFeeds(t) == Cardinality({i \in DOMAIN t : t[i] = 10})
LineCount(t) == IF t = <<>> THEN 0 ELSE 1 + LineFeeds(t)

\* The number of line feeds in the text of descriptor i, if it was read
\* without error.
LineFeedsRead(i) == IF ReadOk(i) THEN LineFeeds(DescriptorText(i).str) ELSE 0

\* What String does whatever the descriptors hold: the three descriptors are
\* read in order on the receiver's handle, no read is skipped, and the
\* result is the entries of the descriptors read without error, in order,
\* with a line feed between each two (empty when all three fail).
StringQueriesAndJoins ==
    /\ Len(DescriptorCalls) = 3
    /\ \A i \in 1..3 :
         /\ DescriptorCalls[i].fn = Descriptors[i]
         /\ DescriptorCalls[i].dev = Deref(op.d).dev
         /\ DescriptorCalls[i].ret = nat.parts[i].rc
    /\ ret.err = NilError
    /\ ret.str = WithLineFeeds(Entry(1) \o Entry(2) \o Entry(3))
    /\ (\A i \in 1..3 : ~ReadOk(i)) => ret.str = <<>>

\* C22 as stated: String reads the three descriptors in order without
\* stopping at a failure, and its result has exactly one line per descriptor
\* read without error.
C22_OneLinePerDescriptor ==
    op.name = "String" =>
        /\ StringQueriesAndJoins
        /\ LineCount(ret.str) = Cardinality({i \in 1..3 : ReadOk(i)})

\* C22, amended: String reads the three descriptors in order without
\* stopping at a failure; its result is one entry "label: text" per
\* descriptor read without error, in order, joined by line feeds, and is
\* empty when all three fail.  An entry is one line unless the descriptor's
\* text itself has line feeds: the result has one line per descriptor read
\* without error plus one per line feed in those descriptors' texts.
C22_OneEntryPerDescriptor ==
    op.name = "String" =>
        /\ StringQueriesAndJoins
        /\ LineCount(ret.str) =
             Cardinality({i \in 1..3 : ReadOk(i)})
             + LineFeedsRead(1) + LineFeedsRead(2) + LineFeedsRead(3)

\* C22 witness: the manufacturer read failed, the product is "He" with an
\* acute accent, the serial number cannot be converted: all three were read
\* and the result is the one line "product: " with the product.
C22_OnlyProductLine ==
    /\ op.name = "String"
    /\ nat.parts[1].rc = -1
    /\ nat.parts[2].out = <<72, 233, 0>>
    /\ nat.parts[3].out = <<55296, 0>>
    /\ Len(DescriptorCalls) = 3
    /\ ret.str = <<112, 114, 111, 100, 117, 99, 116, 58, 32, 72, 195, 169>>

\* Whether the wide string at p can be converted: each character before the
\* terminator is a Unicode scalar value.
Convertible(p) ==
    /\ ~IsNull(p)
    /\ \A i \in DOMAIN UntilNul(Deref(p)) : IsScalar(UntilNul(Deref(p))[i])

\* The text t of a DeviceInfo string field made from the wide string at p:
\* empty when the string cannot be converted, the string in UTF-8 when it
\* can.
FieldOf(t, p) ==
    /\ (~IsNull(p) /\ ~Convertible(p)) => t = <<>>
    /\ Convertible(p) => Utf8Decode(t) = [ok |-> TRUE, ws |-> UntilNul(Deref(p))]

\* C23: Enumerate returns one entry per node also when strings of the list
\* cannot be converted: such a string gives an empty field, every string
\* that can be converted and every other field is as in the node, for every
\* entry, and Enumerate returns no error and asks for none.
C23_UnconvertibleFieldEmpty ==
    (op.name = "Enumerate" /\ nat.head # 0) =>
        /\ ret.err = NilError
        /\ CallsOf(calls, "hid_error") = <<>>
        /\ ~IsNull(ret.list)
        /\ Len(Deref(ret.list)) = Len(nat.order)
        /\ \A i \in DOMAIN nat.order :
             LET info == Deref(ret.list)[i]
                 node == nat.mem[nat.order[i]]
             IN /\ CarriesNode(info, node)
                /\ FieldOf(info.SerialNumber, node.serial_number)
                /\ FieldOf(info.Manufacturer, node.manufacturer_string)
                /\ FieldOf(info.Product, node.product_string)

\* C23 witness: a node whose manufacturer cannot be converted, followed by
\* a node whose product cannot: both entries came back, the first without
\* manufacturer but with serial number and product, the second without
\* product but with manufacturer.
C23_EntriesKeptWithoutBadStrings ==
    /\ op.name = "Enumerate"
    /\ Len(nat.order) = 2
    /\ ~Convertible(nat.mem[nat.order[1]].manufacturer_string)
    /\ ~Convertible(nat.mem[nat.order[2]].product_string)
    /\ Len(Deref(ret.list)) = 2
    /\ Deref(ret.list)[1].Manufacturer = <<>>
    /\ Deref(ret.list)[1].SerialNumber = <<83, 52>>
    /\ Deref(ret.list)[1].Product = <<80, 195, 169>>
    /\ Deref(ret.list)[2].Product = <<>>
    /\ Deref(ret.list)[2].Manufacturer = <<77, 53>>

\* The entries of the enumeration with the vendor and product id of entry k.
Alike(k) ==
    {j \in DOMAIN test.devs :
        /\ test.devs[j].VendorID = test.devs[k].VendorID
        /\ test.devs[j].ProductID = test.devs[k].ProductID}

\* The Open calls of the run so far, in order.
OpenLog == SelectSeq(test.log, LAMBDA e : e.op.name = "Open")

\* C24: libTest makes at most one Open call per entry of the enumeration,
\* and one per entry by the time it returns; the k-th Open call is given the
\* vendor id and product id of entry k and the serial number "", so it
\* makes one hid_open call with a NULL serial number, which addresses the
\* first attached device that has these ids.  An entry that follows another
\* with the same ids is therefore not the device any Open call addresses.
C24_OpenPerEntryAddressesFirst ==
    /\ Len(OpenLog) <= Len(test.devs)
    /\ Len(test.addressed) = Len(OpenLog)
    /\ (test.pc = "done" /\ test.result = NilError /\ LogPlaces({"Enumerate"}) # {})
          => Len(OpenLog) = Len(test.devs)
    /\ \A k \in DOMAIN OpenLog :
         /\ OpenLog[k].op.x = test.devs[k].VendorID
         /\ OpenLog[k].op.y = test.devs[k].ProductID
         /\ OpenLog[k].op.s = <<>>
         /\ test.addressed[k] \in Alike(k)
         /\ \A j \in Alike(k) : test.addressed[k] <= j
    /\ \A k \in DOMAIN test.devs :
         (\E j \in Alike(k) : j < k) =>
             \A a \in DOMAIN test.addressed : test.addressed[a] # k
    /\ op.name = "Open" =>
         /\ Len(calls) = 1
         /\ calls[1].fn = "hid_open"
         /\ IsNull(calls[1].ptr)

\* C24 witness: two attached devices with the same ids but different paths
\* and serial numbers were listed; libTest returned after two Open calls,
\* both of which addressed the first device.
C24_BothOpensAddressFirst ==
    /\ test.pc = "done"
    /\ Len(test.devs) = 2
    /\ test.devs[1].Path # test.devs[2].Path
    /\ test.devs[1].SerialNumber # test.devs[2].SerialNumber
    /\ Alike(2) = {1, 2}
    /\ Len(OpenLog) = 2
    /\ OpenLog[1].err = NilError
    /\ OpenLog[2].err = NilError
    /\ test.addressed = <<1, 1>>
=============================================================================
